---- MODULE Spec2Model ----
(***************************************************************************)
(* The semantic analysis phase of fcc: the type algebra (type.c), the      *)
(* expression / initializer analyzer (analyzer-value.c) and the statement  *)
(* driver (analyzer.c).                                                    *)
(*                                                                         *)
(* Two specifications:                                                     *)
(*   SpecType  the type algebra applied to bounded pairs of types          *)
(*   Spec      one analyzer() pass over a bounded AST                      *)
(***************************************************************************)
EXTENDS Integers, Sequences, FiniteSets, TLC

VARIABLES
    DT,         \* type algebra: first operand (the "actual")
    Model,      \* type algebra: second operand (the "model")
    tcall,      \* type algebra: the last call made, with its outcome
    Tree,       \* analyzer: the AST handed over by the parser
    pc,         \* analyzer: "parsed", "done" or "segv"
    out,        \* analyzer: the AST after the pass (dt and symbol filled in)
    ctx,        \* analyzer: the context's counters and diagnostics
    isLvalue,   \* analyzer: the lvalue field of the valueResult returned for Tree
    heap        \* type nodes as heap objects: nodes, parameter arrays, frees, owners

vars == <<DT, Model, tcall, Tree, pc, out, ctx, isLvalue, heap>>

(***************************************************************************)
(* Bounds                                                                  *)
(***************************************************************************)
\* nesting depth of the types compared with themselves
MaxDepth == 2
\* nesting depth of the types compared pairwise
MaxPairDepth == 1
\* parameters of a generated function type
MaxParams == 1

(***************************************************************************)
(* Symbols (sym.h, read-only for the analyzer)                             *)
(***************************************************************************)
NoSym == "NULL"

typeNumeric == "typeNumeric"
typeOrdinal == "typeOrdinal"
typeEquality == "typeEquality"
typeAssignment == "typeAssignment"
typeCondition == "typeCondition"

typeIntegral == {typeNumeric, typeOrdinal, typeEquality, typeAssignment, typeCondition}

\* Null pointer to a type
Null == [tag |-> "null"]

(***************************************************************************)
(* Three-valued outcomes of a comparison: "T", "F", or "UB" when the       *)
(* evaluation reads through a null type pointer.                           *)
(***************************************************************************)
B3(b) == IF b THEN "T" ELSE "F"

\* C's a && b
And3(a, b) == IF a = "F" THEN "F" ELSE IF a = "UB" THEN "UB" ELSE b

\* C's a || b
Or3(a, b) == IF a = "T" THEN "T" ELSE IF a = "UB" THEN "UB" ELSE b

(***************************************************************************)
(* Type constructors                                                       *)
(***************************************************************************)
typeCreate(tag) ==
    [tag |-> tag, basic |-> NoSym, base |-> Null, array |-> 0,
     returnType |-> Null, paramTypes |-> <<>>, params |-> 0,
     variadic |-> "uninit"]

typeCreateBasic(basic) == [typeCreate("typeBasic") EXCEPT !.basic = basic]

typeCreatePtr(base) == [typeCreate("typePtr") EXCEPT !.base = base]

typeCreateArray(base, size) ==
    [typeCreate("typeArray") EXCEPT !.base = base, !.array = size]

typeCreateFunction(returnType, paramTypes, params) ==
    [typeCreate("typeFunction") EXCEPT !.returnType = returnType,
                                       !.paramTypes = paramTypes,
                                       !.params = params]

typeCreateInvalid == typeCreate("typeInvalid")

(***************************************************************************)
(* The symbol table the pass reads.  The builtin types and their           *)
(* classification masks; one struct S { int a; char* b; }; and the         *)
(* declared variables, functions and enum constant the expressions name.   *)
(***************************************************************************)
Builtins == {"void", "bool", "char", "int"}

symTag(s) ==
    CASE s \in Builtins -> "symType"
      [] s = "S" -> "symStruct"
      [] s = "E" -> "symEnumConstant"
      [] s = "n" -> "symParam"
      [] OTHER -> "symId"

symMask(s) ==
    CASE s \in {"char", "int"} -> typeIntegral
      [] s = "bool" -> {typeEquality, typeAssignment, typeCondition}
      [] s = "S" -> {typeAssignment}
      [] OTHER -> {}

symSize(s) ==
    CASE s = "int" -> 8
      [] s \in {"bool", "char"} -> 1
      [] s = "S" -> 16
      [] OTHER -> 0

\* struct fields, in declaration order
symChildren(s) == IF s = "S" THEN <<"a", "b">> ELSE <<>>

FnType(ret, ps, variadic) ==
    [typeCreateFunction(ret, ps, Len(ps)) EXCEPT !.variadic = variadic]

\* the declared type of a symbol (sym->dt)
symDt(s) ==
    CASE s \in {"x", "a", "E", "n"} -> typeCreateBasic("int")
      [] s = "b" -> typeCreatePtr(typeCreateBasic("char"))
      [] s = "p" -> typeCreatePtr(typeCreateBasic("int"))
      [] s = "s" -> typeCreateBasic("S")
      [] s = "sp" -> typeCreatePtr(typeCreateBasic("S"))
      [] s = "arr" -> typeCreateArray(typeCreateBasic("int"), 3)
      [] s = "f" -> FnType(typeCreateBasic("int"), <<typeCreateBasic("int")>>, "clear")
      [] s = "f2" -> FnType(typeCreateBasic("int"),
                            <<typeCreateBasic("int"), typeCreateBasic("int")>>, "clear")
      [] s = "g" -> FnType(typeCreateBasic("int"), <<>>, "clear")
      [] s = "h" -> FnType(typeCreateBasic("void"), <<>>, "clear")
      [] s = "v" -> FnType(typeCreateBasic("int"), <<typeCreateBasic("int")>>, "set")
      [] OTHER -> Null

(***************************************************************************)
(* Type classification                                                     *)
(***************************************************************************)
typeIsInvalid(t) == t.tag = "typeInvalid"

typeIsBasic(t) == t.tag = "typeBasic" \/ typeIsInvalid(t)

typeIsPtr(t) == t.tag = "typePtr" \/ typeIsInvalid(t)

typeIsArray(t) == t.tag = "typeArray" \/ typeIsInvalid(t)

typeIsFunction(t) == t.tag = "typeFunction" \/ typeIsInvalid(t)

RECURSIVE typeGetSize(_)
typeGetSize(t) ==
    IF typeIsInvalid(t) THEN 0
    ELSE IF typeIsArray(t) THEN t.array * typeGetSize(t.base)
    ELSE IF typeIsPtr(t) \/ typeIsFunction(t) THEN 8
    ELSE symSize(t.basic)

typeIsVoid(t) ==
    \/ (t.tag = "typeBasic" /\ symTag(t.basic) = "symType") /\ typeGetSize(t) = 0
    \/ typeIsInvalid(t)

typeIsRecord(t) ==
    \/ t.tag = "typeBasic" /\ symTag(t.basic) = "symStruct"
    \/ typeIsInvalid(t)

typeIsCallable(t) ==
    \/ typeIsFunction(t)
    \/ t.tag = "typePtr" /\ typeIsFunction(t.base)
    \/ typeIsInvalid(t)

HasMask(t, bit) == t.tag = "typeBasic" /\ bit \in symMask(t.basic)

\* mutant: a pointer is not numeric
typeIsNumeric_NoPtr(t) == HasMask(t, typeNumeric) \/ typeIsInvalid(t)

typeIsNumeric(t) == HasMask(t, typeNumeric) \/ typeIsPtr(t) \/ typeIsInvalid(t)

typeIsOrdinal(t) == HasMask(t, typeOrdinal) \/ typeIsPtr(t) \/ typeIsInvalid(t)

typeIsEquality(t) == HasMask(t, typeEquality) \/ typeIsPtr(t) \/ typeIsInvalid(t)

typeIsAssignment(t) == HasMask(t, typeAssignment) \/ typeIsPtr(t) \/ typeIsInvalid(t)

typeIsCondition(t) == HasMask(t, typeCondition) \/ typeIsPtr(t) \/ typeIsInvalid(t)

\* the classification predicates by name, and those a type satisfies
Classifiers ==
    {"typeIsBasic", "typeIsPtr", "typeIsArray", "typeIsFunction", "typeIsVoid",
     "typeIsRecord", "typeIsCallable", "typeIsNumeric", "typeIsOrdinal",
     "typeIsEquality", "typeIsAssignment", "typeIsCondition"}

Classified(p, t) ==
    CASE p = "typeIsBasic" -> typeIsBasic(t)
      [] p = "typeIsPtr" -> typeIsPtr(t)
      [] p = "typeIsArray" -> typeIsArray(t)
      [] p = "typeIsFunction" -> typeIsFunction(t)
      [] p = "typeIsVoid" -> typeIsVoid(t)
      [] p = "typeIsRecord" -> typeIsRecord(t)
      [] p = "typeIsCallable" -> typeIsCallable(t)
      [] p = "typeIsNumeric" -> typeIsNumeric(t)
      [] p = "typeIsOrdinal" -> typeIsOrdinal(t)
      [] p = "typeIsEquality" -> typeIsEquality(t)
      [] p = "typeIsAssignment" -> typeIsAssignment(t)
      [] p = "typeIsCondition" -> typeIsCondition(t)

Classes(t) == {p \in Classifiers : Classified(p, t)}

(***************************************************************************)
(* Type comparison.  A null operand is read (->tag) by the first test of   *)
(* either function, left operand first: the outcome is "UB".               *)
(***************************************************************************)
RECURSIVE typeIsCompatible(_, _), typeIsEqual(_, _), ParamsEqualFrom(_, _, _)

\* the loop of typeIsCompatible over the parameter types, from index i (1-based)
ParamsEqualFrom(D, M, i) ==
    IF i > M.params THEN "T"
    ELSE And3(typeIsEqual(D.paramTypes[i], M.paramTypes[i]),
              ParamsEqualFrom(D, M, i + 1))

\* the Function branch: a non-function actual has params = 0 and
\* returnType = 0 (typeCreate)
CompatibleFunction(D, M) ==
    IF M.params # D.params THEN "F"
    ELSE And3(ParamsEqualFrom(D, M, 1), typeIsEqual(D.returnType, M.returnType))

\* mutant: the pointee types are never compared
CompatiblePtr_NoPointee(D, M) ==
    Or3(And3(B3(typeIsPtr(D) \/ typeIsArray(D)), B3(typeIsVoid(M.base))),
        B3(typeIsBasic(D) /\ typeNumeric \in symMask(D.basic)))

\* mutant: a numeric basic actual is not accepted for a pointer model
CompatiblePtr_NoNumeric(D, M) ==
    And3(B3(typeIsPtr(D) \/ typeIsArray(D)),
         Or3(B3(typeIsVoid(M.base)), typeIsCompatible(D.base, M.base)))

CompatiblePtr(D, M) ==
    Or3(And3(B3(typeIsPtr(D) \/ typeIsArray(D)),
             Or3(B3(typeIsVoid(M.base)), typeIsCompatible(D.base, M.base))),
        B3(typeIsBasic(D) /\ typeNumeric \in symMask(D.basic)))

\* mutant: the unspecified size is accepted on the actual instead of the model
CompatibleArray_ActualUnsized(D, M) ==
    And3(B3(typeIsArray(D) /\ (D.array = M.array \/ D.array = -1)),
         typeIsCompatible(D.base, M.base))

CompatibleArray(D, M) ==
    And3(B3(typeIsArray(D) /\ (D.array = M.array \/ M.array = -1)),
         typeIsCompatible(D.base, M.base))

\* mutant: a pointer actual is not accepted for a numeric basic model
CompatibleBasic_NoPtr(D, M) ==
    B3(~typeIsPtr(D) /\ ~typeIsArray(D) /\ D.basic = M.basic)

CompatibleBasic(D, M) ==
    IF typeIsPtr(D) THEN B3(typeNumeric \in symMask(M.basic))
    ELSE B3(~typeIsArray(D) /\ D.basic = M.basic)

typeIsCompatible(D, M) ==
    IF D.tag = "null" THEN "UB"
    ELSE IF typeIsInvalid(D) THEN "T"
    ELSE IF M.tag = "null" THEN "UB"
    ELSE IF typeIsInvalid(M) THEN "T"
    ELSE IF typeIsFunction(M) THEN CompatibleFunction(D, M)
    ELSE IF typeIsPtr(M) THEN CompatiblePtr(D, M)
    ELSE IF typeIsArray(M) THEN CompatibleArray(D, M)
    ELSE CompatibleBasic(D, M)

\* mutant: array sizes are not compared
typeIsEqual_NoSize(L, R) ==
    IF L.tag = "null" THEN "UB"
    ELSE IF typeIsInvalid(L) THEN "T"
    ELSE IF R.tag = "null" THEN "UB"
    ELSE IF typeIsInvalid(R) THEN "T"
    ELSE IF L.tag # R.tag THEN "F"
    ELSE IF typeIsFunction(L) THEN typeIsCompatible(L, R)
    ELSE IF typeIsPtr(L) \/ typeIsArray(L) THEN typeIsEqual(L.base, R.base)
    ELSE B3(L.basic = R.basic)

typeIsEqual(L, R) ==
    IF L.tag = "null" THEN "UB"
    ELSE IF typeIsInvalid(L) THEN "T"
    ELSE IF R.tag = "null" THEN "UB"
    ELSE IF typeIsInvalid(R) THEN "T"
    ELSE IF L.tag # R.tag THEN "F"
    ELSE IF typeIsFunction(L) THEN typeIsCompatible(L, R)
    ELSE IF typeIsPtr(L) THEN typeIsEqual(L.base, R.base)
    ELSE IF typeIsArray(L) THEN And3(B3(L.array = R.array), typeIsEqual(L.base, R.base))
    ELSE B3(L.basic = R.basic)

(***************************************************************************)
(* Duplication and derivation                                              *)
(***************************************************************************)
RECURSIVE typeDeepDuplicate(_)
typeDeepDuplicate(t) ==
    IF typeIsInvalid(t) THEN typeCreateInvalid
    ELSE IF typeIsBasic(t) THEN typeCreateBasic(t.basic)
    ELSE IF typeIsPtr(t) THEN typeCreatePtr(typeDeepDuplicate(t.base))
    ELSE IF typeIsArray(t) THEN typeCreateArray(typeDeepDuplicate(t.base), t.array)
    ELSE IF typeIsFunction(t) THEN
        typeCreateFunction(typeDeepDuplicate(t.returnType),
                           [i \in 1..t.params |-> typeDeepDuplicate(t.paramTypes[i])],
                           t.params)
    ELSE typeCreateInvalid

typeDeriveFrom(t) == typeDeepDuplicate(t)

typeDeriveFromTwo(L, R) ==
    IF typeIsInvalid(L) \/ typeIsInvalid(R) THEN typeCreateInvalid
    ELSE typeDeriveFrom(L)

typeDeriveUnified(L, R) ==
    IF typeIsInvalid(L) \/ typeIsInvalid(R) THEN typeCreateInvalid
    ELSE IF typeIsEqual(L, R) = "T" THEN typeDeepDuplicate(L)
    ELSE typeDeriveFromTwo(L, R)

typeDeriveBase(t) ==
    IF typeIsInvalid(t) THEN typeCreateInvalid
    ELSE typeDeepDuplicate(t.base)

typeDerivePtr_InvalidAware(base) ==
    IF typeIsInvalid(base) THEN typeCreateInvalid
    ELSE typeCreatePtr(typeDeepDuplicate(base))

typeDerivePtr(base) == typeCreatePtr(typeDeepDuplicate(base))

typeDeriveArray(base, size) == typeCreateArray(typeDeepDuplicate(base), size)

RECURSIVE typeDeriveReturn(_)
typeDeriveReturn(t) ==
    IF typeIsInvalid(t) THEN typeCreateInvalid
    ELSE IF typeIsPtr(t) THEN typeDeriveReturn(t.base)
    ELSE typeDeepDuplicate(t.returnType)

(***************************************************************************)
(* The bounded universe of types handed to the type algebra                *)
(***************************************************************************)
ArraySizes == {-1, 2, 3}

LeafTypes == {typeCreateInvalid, typeCreateBasic("int"), typeCreateBasic("void")}

\* parameter lists of at most MaxParams types: the first drawn from S
ParamSeqs(S) ==
    {<<>>} \cup
    UNION {{<<p>> \o t : p \in S, t \in [1..(k - 1) -> LeafTypes]} : k \in 1..MaxParams}

RECURSIVE Gen(_)
Gen(d) ==
    IF d = 0 THEN LeafTypes
    ELSE LET S == Gen(d - 1) IN
         S \cup {typeCreatePtr(t) : t \in S}
           \cup {typeCreateArray(t, n) : t \in S, n \in ArraySizes}
           \cup {typeCreateFunction(r, ps, Len(ps)) : r \in LeafTypes, ps \in ParamSeqs(S)}

TypePairs ==
    {<<t, t>> : t \in Gen(MaxDepth)} \cup (Gen(MaxPairDepth) \X Gen(MaxPairDepth))

\* what reading through a null pointer can do: fault, or yield either answer
NullReads == {"segv", "true", "false"}

NoCall ==
    [op |-> "none", res |-> "none", type |-> Null, nullRead |-> "segv", classes |-> {}]

NoNode == [tag |-> "astNone"]

\* no type on the heap
NoHeap ==
    [node |-> <<>>, arr |-> <<>>, freed |-> {}, freedArr |-> {},
     src |-> 0, roots |-> {}, differs |-> {}, last |-> <<>>, copies |-> 0]

NoCtx == [errors |-> 0, warnings |-> 0, diags |-> <<>>, returnType |-> Null]

(***************************************************************************)
(* SpecType: the type algebra applied to a pair of types                   *)
(***************************************************************************)
\* what the caller of a comparison observes, nr being what a null read does
Observed(r, nr) ==
    CASE r = "T" -> "true"
      [] r = "F" -> "false"
      [] OTHER -> nr

InitType ==
    /\ \E pr \in TypePairs : DT = pr[1] /\ Model = pr[2]
    /\ tcall = NoCall
    /\ Tree = NoNode
    /\ out = NoNode
    /\ pc = "idle"
    /\ ctx = NoCtx
    /\ isLvalue = FALSE
    /\ heap = NoHeap

Returned(op, r, t) ==
    /\ tcall' = [op |-> op, res |-> r, type |-> t, nullRead |-> "segv", classes |-> {}]
    /\ UNCHANGED <<DT, Model, Tree, pc, out, ctx, isLvalue, heap>>

Compared(op, r) ==
    /\ \E nr \in NullReads :
            tcall' = [op |-> op, res |-> Observed(r, nr), type |-> Null,
                      nullRead |-> IF r = "UB" THEN nr ELSE "segv", classes |-> {}]
    /\ UNCHANGED <<DT, Model, Tree, pc, out, ctx, isLvalue, heap>>

IsCompatible == Compared("typeIsCompatible", typeIsCompatible(DT, Model))

IsEqual == Compared("typeIsEqual", typeIsEqual(DT, Model))

\* every classification predicate asked of DT
Classify ==
    /\ tcall' = [op |-> "typeIs", res |-> "classes", type |-> Null,
                 nullRead |-> "segv", classes |-> Classes(DT)]
    /\ UNCHANGED <<DT, Model, Tree, pc, out, ctx, isLvalue, heap>>

DeepDuplicate == Returned("typeDeepDuplicate", "type", typeDeepDuplicate(DT))

DeriveFrom == Returned("typeDeriveFrom", "type", typeDeriveFrom(DT))

\* debugAssert: the operands are compatible
DeriveFromTwo ==
    /\ typeIsInvalid(DT) \/ typeIsInvalid(Model) \/ typeIsCompatible(DT, Model) = "T"
    /\ Returned("typeDeriveFromTwo", "type", typeDeriveFromTwo(DT, Model))

DeriveUnified ==
    /\ typeIsInvalid(DT) \/ typeIsInvalid(Model) \/ typeIsCompatible(DT, Model) = "T"
    /\ Returned("typeDeriveUnified", "type", typeDeriveUnified(DT, Model))

\* debugAssert: a pointer or an array
DeriveBase ==
    /\ typeIsPtr(DT) \/ typeIsArray(DT)
    /\ Returned("typeDeriveBase", "type", typeDeriveBase(DT))

DerivePtr == Returned("typeDerivePtr", "type", typeDerivePtr(DT))

\* debugAssert: callable
DeriveReturn ==
    /\ typeIsCallable(DT)
    /\ Returned("typeDeriveReturn", "type", typeDeriveReturn(DT))

NextType ==
    \/ IsCompatible
    \/ IsEqual
    \/ Classify
    \/ DeepDuplicate
    \/ DeriveFrom
    \/ DeriveFromTwo
    \/ DeriveUnified
    \/ DeriveBase
    \/ DerivePtr
    \/ DeriveReturn

SpecType == InitType /\ [][NextType]_vars

(***************************************************************************)
(* Properties of the type algebra (checked under SpecType)                 *)
(***************************************************************************)
RECURSIVE ContainsInvalid(_)
ContainsInvalid(t) ==
    CASE t.tag = "typeInvalid" -> TRUE
      [] t.tag \in {"typePtr", "typeArray"} -> ContainsInvalid(t.base)
      [] t.tag = "typeFunction" ->
            \/ ContainsInvalid(t.returnType)
            \/ \E i \in 1..t.params : ContainsInvalid(t.paramTypes[i])
      [] OTHER -> FALSE

CompatibleAsked == tcall.op = "typeIsCompatible"

\* C6: typeIsCompatible(t, t) is true for every type t built from Basic,
\* Pointer, Array (any size, -1 included) and Function (any arity, nested
\* parameters) that holds no Invalid.
C6_CompatibleReflexive ==
    (CompatibleAsked /\ DT = Model /\ ~ContainsInvalid(DT)) => tcall.res = "true"

C6_Witness ==
    /\ CompatibleAsked /\ DT = Model /\ ~ContainsInvalid(DT)
    /\ DT.tag = "typeFunction" /\ DT.params = 1
    /\ DT.paramTypes[1].tag = "typePtr"
    /\ tcall.res = "true"

\* C7: whenever typeIsEqual(L, R) answers true (Invalid payloads included),
\* typeIsCompatible(L, R) and typeIsCompatible(R, L) are both true.
C7_EqualImpliesCompatible ==
    (tcall.op = "typeIsEqual" /\ tcall.res = "true") =>
        /\ typeIsCompatible(DT, Model) = "T"
        /\ typeIsCompatible(Model, DT) = "T"

C7_Witness ==
    /\ tcall.op = "typeIsEqual" /\ tcall.res = "true"
    /\ DT # Model
    /\ DT.tag = "typeArray" /\ typeIsInvalid(DT.base)
    /\ Model.tag = "typeArray" /\ ~typeIsInvalid(Model.base)

\* what C8 says typeIsCompatible answers against a Function model
FunctionModelAccepts(D, M) ==
    /\ D.tag = "typeFunction"
    /\ D.params = M.params
    /\ \A i \in 1..M.params : typeIsEqual(D.paramTypes[i], M.paramTypes[i]) = "T"
    /\ typeIsEqual(D.returnType, M.returnType) = "T"

\* C8: against a Function model, typeIsCompatible answers true exactly when
\* the actual is a function of the same arity with pairwise equal parameter
\* and return types; it answers false for every Basic, Pointer or Array
\* actual, also when the model has no parameters.
C8_FunctionModel ==
    (CompatibleAsked /\ Model.tag = "typeFunction" /\ ~typeIsInvalid(DT)) =>
        tcall.res = (IF FunctionModelAccepts(DT, Model) THEN "true" ELSE "false")

\* C9: against an Array model, typeIsCompatible answers true exactly when the
\* actual is an Array, the element types are compatible, and the sizes are
\* equal or the model's size is -1.
C9_ArrayModel ==
    (CompatibleAsked /\ Model.tag = "typeArray" /\ ~typeIsInvalid(DT)) =>
        (tcall.res = "true" <=>
            /\ DT.tag = "typeArray"
            /\ DT.array = Model.array \/ Model.array = -1
            /\ Observed(typeIsCompatible(DT.base, Model.base), tcall.nullRead) = "true")

C9_Witness ==
    /\ CompatibleAsked /\ tcall.res = "true"
    /\ Model.tag = "typeArray" /\ Model.array = -1
    /\ DT.tag = "typeArray" /\ DT.array = 3

Derivations ==
    {"typeDeriveFrom", "typeDeriveFromTwo", "typeDeriveUnified",
     "typeDeriveBase", "typeDerivePtr", "typeDeriveReturn"}

\* C10: every derivation returns Invalid when one of its inputs is Invalid.
C10_DerivationsAbsorbInvalid ==
    /\ (tcall.op \in Derivations /\ typeIsInvalid(DT)) => typeIsInvalid(tcall.type)
    /\ (tcall.op \in {"typeDeriveFromTwo", "typeDeriveUnified"} /\ typeIsInvalid(Model))
            => typeIsInvalid(tcall.type)

(***************************************************************************)
(* AST nodes (ast.h).  kids is the firstChild/nextSibling list and         *)
(* children its length; location stands for the node's line:col.           *)
(***************************************************************************)
astNode(tag) ==
    [tag |-> tag, o |-> "", litTag |-> "", literal |-> "", symbol |-> NoSym,
     l |-> NoNode, r |-> NoNode, kids |-> <<>>, dt |-> Null, location |-> <<>>]

IsNull(Node) == Node.tag = "astNone"

DtOf(Node) == IF IsNull(Node) THEN Null ELSE Node.dt

astIsValueTag(tag) ==
    tag \in {"astBOP", "astUOP", "astTOP", "astIndex", "astCall", "astCast",
             "astSizeof", "astLiteral"}

(***************************************************************************)
(* Operator classes                                                        *)
(***************************************************************************)
isNumericBOP(o) ==
    o \in {"+", "-", "*", "/", "%", "&", "|", "^", "<<", ">>",
           "+=", "-=", "*=", "/=", "%=", "&=", "|=", "^=", "<<=", ">>="}

isOrdinalBOP(o) == o \in {">", "<", ">=", "<="}

isEqualityBOP(o) == o \in {"==", "!="}

isAssignmentBOP(o) ==
    o \in {"=", "+=", "-=", "*=", "/=", "%=", "&=", "|=", "^=", "<<=", ">>="}

isLogicalBOP(o) == o \in {"&&", "||"}

isMemberBOP(o) == o \in {".", "->"}

isDerefBOP(o) == o = "->"

isCommaBOP(o) == o = ","

(***************************************************************************)
(* The analyzer context and the diagnostics sink.  Besides the counters    *)
(* the threaded context records what this run's reads of indeterminate     *)
(* memory yield: junk (a bool field typeCreate never wrote), nullRead (a   *)
(* read through a null pointer), and segv once such a read has faulted.    *)
(***************************************************************************)
analyzerInit(j, nr) ==
    [errors |-> 0, warnings |-> 0, diags |-> <<>>, returnType |-> Null,
     segv |-> FALSE, junk |-> j, nullRead |-> nr]

\* one diagnostic line: found and other are the types it renders
Diag(kind, o, expected, found, other, n, got) ==
    [kind |-> kind, at |-> <<>>, o |-> o, expected |-> expected,
     found |-> found, other |-> other, n |-> n, got |-> got]

\* prints one line keyed on Node->location and counts it
\* mutant: the line is printed but not counted
analyzerError_NoCount(c, Node, d) ==
    IF c.segv THEN c
    ELSE IF IsNull(Node) THEN
        IF c.nullRead = "segv" THEN [c EXCEPT !.segv = TRUE]
        ELSE [c EXCEPT !.diags = Append(@, [d EXCEPT !.at = <<0>>])]
    ELSE [c EXCEPT !.diags = Append(@, [d EXCEPT !.at = Node.location])]

analyzerError(c, Node, d) ==
    IF c.segv THEN c
    ELSE IF IsNull(Node) THEN
        IF c.nullRead = "segv" THEN [c EXCEPT !.segv = TRUE]
        ELSE [c EXCEPT !.diags = Append(@, [d EXCEPT !.at = <<0>>]),
                       !.errors = @ + 1]
    ELSE [c EXCEPT !.diags = Append(@, [d EXCEPT !.at = Node.location]),
                   !.errors = @ + 1]

analyzerErrorExpected(c, Node, where, Expected, Found) ==
    analyzerError(c, Node, Diag("analyzerErrorExpected", where, Expected, Found, Null, 0, 0))

analyzerErrorExpectedType(c, Node, where, Expected, Found) ==
    analyzerError(c, Node, Diag("analyzerErrorExpectedType", where, "", Found, Expected, 0, 0))

analyzerErrorParamMismatch(c, Node, n, Expected, Found) ==
    analyzerError(c, Node, Diag("errorParamMismatch", "()", "", Found, Expected, n + 1, 0))

errorTypeExpected(c, Node, where, expected) ==
    analyzerError(c, Node, Diag("errorTypeExpected", where, expected, DtOf(Node), Null, 0, 0))

errorTypeExpectedType(c, Node, where, expected) ==
    analyzerError(c, Node, Diag("errorTypeExpectedType", where, "", DtOf(Node), expected, 0, 0))

errorLvalue(c, Node, o) ==
    analyzerError(c, Node, Diag("errorLvalue", o, "lvalue", DtOf(Node), Null, 0, 0))

errorMismatch(c, Node, o) ==
    analyzerError(c, Node, Diag("errorMismatch", o, "", Node.l.dt, Node.r.dt, 0, 0))

errorDegree(c, Node, thing, expected, found, where) ==
    analyzerError(c, Node, Diag("errorDegree", where, thing, Null, Null, expected, found))

errorParamMismatch(c, Node, n, Expected, Found) ==
    analyzerErrorParamMismatch(c, Node, n, Expected, Found)

errorNamedParamMismatch(c, Node, n, fn, Found) ==
    analyzerError(c, Node, Diag("errorNamedParamMismatch", fn, "", Found,
                                symDt(fn).paramTypes[n + 1], n + 1, 0))

errorMember(c, o, Node, Record) ==
    analyzerError(c, Node, Diag("errorMember", o, Node.literal, Record, Null, 0, 0))

errorInitFieldMismatch(c, Node, structSym, field) ==
    analyzerError(c, Node, Diag("errorInitFieldMismatch", structSym, field, DtOf(Node),
                                symDt(field), 0, 0))

errorIllegalSymAsValue(c, Node, Symbol) ==
    analyzerError(c, Node, Diag("errorIllegalSymAsValue", Symbol, symTag(Symbol), Null, Null, 0, 0))

\* a comparison's answer as this run sees it, and the fault it may raise
Holds(c, r) == Observed(r, c.nullRead) = "true"

Crash(c, r) == IF r = "UB" /\ c.nullRead = "segv" THEN [c EXCEPT !.segv = TRUE] ELSE c

\* valueResult, with the context as it is after the visit
VR(c, Node, lvalue) == [c |-> c, node |-> Node, lvalue |-> lvalue]

(***************************************************************************)
(* Collaborators outside the analyzer                                      *)
(***************************************************************************)
\* the type a type-expression node denotes (analyzerType)
analyzerType(Node) ==
    CASE Node.literal = "int" -> typeCreateBasic("int")
      [] Node.literal = "int*" -> typeCreatePtr(typeCreateBasic("int"))
      [] Node.literal = "int[2]" -> typeCreateArray(typeCreateBasic("int"), 2)
      [] Node.literal = "int[]" -> typeCreateArray(typeCreateBasic("int"), -1)
      [] Node.literal = "S" -> typeCreateBasic("S")
      [] OTHER -> typeCreateInvalid

typeGetRecordSym(t) ==
    IF t.tag = "typeBasic" /\ symTag(t.basic) = "symStruct" THEN t.basic
    ELSE IF t.tag = "typePtr" /\ t.base.tag = "typeBasic"
            /\ symTag(t.base.basic) = "symStruct" THEN t.base.basic
    ELSE NoSym

symChild(record, name) ==
    IF \E i \in 1..Len(symChildren(record)) : symChildren(record)[i] = name
    THEN name ELSE NoSym

\* fn->variadic: typeCreate never writes the field of the types the pass creates
Variadic(c, fn) == IF fn.variadic = "uninit" THEN c.junk ELSE fn.variadic = "set"

(***************************************************************************)
(* The expression analyzer.  Every visit returns the context after it,     *)
(* the node with dt (and symbol) written, and the l-value flag.            *)
(***************************************************************************)
RECURSIVE analyzerValue(_, _), analyzerInitOrCompoundLiteral(_, _, _)
RECURSIVE CallParams(_, _, _, _, _), CallRest(_, _, _)
RECURSIVE InitFields(_, _, _, _), InitElements(_, _, _, _)

\* mutant: the l-value check comes after the mismatch check
analyzerBOP_LvalueLast(c, Node) ==
    LET L == analyzerValue(c, Node.l)
        R == analyzerValue(L.c, Node.r)
        Ldt == L.node.dt
        Rdt == R.node.dt
        N1 == [Node EXCEPT !.l = L.node, !.r = R.node]
        c1 == IF isNumericBOP(Node.o) /\ (~typeIsNumeric(Ldt) \/ ~typeIsNumeric(Rdt))
              THEN errorTypeExpected(R.c, IF ~typeIsNumeric(Ldt) THEN L.node ELSE R.node,
                                     Node.o, "numeric type")
              ELSE R.c
        c2 == IF isAssignmentBOP(Node.o)
                 /\ (~typeIsAssignment(Ldt) \/ ~typeIsAssignment(Rdt))
              THEN errorTypeExpected(c1, IF ~typeIsAssignment(Ldt) THEN L.node ELSE R.node,
                                     Node.o, "assignable type")
              ELSE c1
        cmp == typeIsCompatible(Ldt, Rdt)
        c4 == Crash(c2, cmp)
        c5 == IF Holds(c4, cmp) THEN c4 ELSE errorMismatch(c4, N1, Node.o)
        c6 == IF isAssignmentBOP(Node.o) /\ ~L.lvalue
              THEN errorLvalue(c5, L.node, Node.o)
              ELSE c5
    IN  IF Holds(c4, cmp)
        THEN VR(c6, [N1 EXCEPT !.dt = typeDeriveFromTwo(Ldt, Rdt)], FALSE)
        ELSE VR(c6, [N1 EXCEPT !.dt = typeCreateInvalid], FALSE)

\* mutant: the left operand of an assignment is not checked for being an l-value
analyzerBOP_NoLvalueCheck(c, Node) ==
    LET L == analyzerValue(c, Node.l)
        R == analyzerValue(L.c, Node.r)
        Ldt == L.node.dt
        Rdt == R.node.dt
        N1 == [Node EXCEPT !.l = L.node, !.r = R.node]
        c1 == IF isNumericBOP(Node.o) /\ (~typeIsNumeric(Ldt) \/ ~typeIsNumeric(Rdt))
              THEN errorTypeExpected(R.c, IF ~typeIsNumeric(Ldt) THEN L.node ELSE R.node,
                                     Node.o, "numeric type")
              ELSE R.c
        c2 == IF isAssignmentBOP(Node.o)
                 /\ (~typeIsAssignment(Ldt) \/ ~typeIsAssignment(Rdt))
              THEN errorTypeExpected(c1, IF ~typeIsAssignment(Ldt) THEN L.node ELSE R.node,
                                     Node.o, "assignable type")
              ELSE c1
        c3 == c2
        cmp == typeIsCompatible(Ldt, Rdt)
        c4 == Crash(c3, cmp)
    IN  IF Holds(c4, cmp)
        THEN VR(c4, [N1 EXCEPT !.dt = typeDeriveFromTwo(Ldt, Rdt)], FALSE)
        ELSE VR(errorMismatch(c4, N1, Node.o), [N1 EXCEPT !.dt = typeCreateInvalid], FALSE)

analyzerBOP(c, Node) ==
    LET L == analyzerValue(c, Node.l)
        R == analyzerValue(L.c, Node.r)
        Ldt == L.node.dt
        Rdt == R.node.dt
        N1 == [Node EXCEPT !.l = L.node, !.r = R.node]
        c1 == IF isNumericBOP(Node.o) /\ (~typeIsNumeric(Ldt) \/ ~typeIsNumeric(Rdt))
              THEN errorTypeExpected(R.c, IF ~typeIsNumeric(Ldt) THEN L.node ELSE R.node,
                                     Node.o, "numeric type")
              ELSE R.c
        c2 == IF isAssignmentBOP(Node.o)
                 /\ (~typeIsAssignment(Ldt) \/ ~typeIsAssignment(Rdt))
              THEN errorTypeExpected(c1, IF ~typeIsAssignment(Ldt) THEN L.node ELSE R.node,
                                     Node.o, "assignable type")
              ELSE c1
        c3 == IF isAssignmentBOP(Node.o) /\ ~L.lvalue
              THEN errorLvalue(c2, L.node, Node.o)
              ELSE c2
        cmp == typeIsCompatible(Ldt, Rdt)
        c4 == Crash(c3, cmp)
    IN  IF Holds(c4, cmp)
        THEN VR(c4, [N1 EXCEPT !.dt = typeDeriveFromTwo(Ldt, Rdt)], FALSE)
        ELSE VR(errorMismatch(c4, N1, Node.o), [N1 EXCEPT !.dt = typeCreateInvalid], FALSE)

analyzerComparisonBOP(c, Node) ==
    LET L == analyzerValue(c, Node.l)
        R == analyzerValue(L.c, Node.r)
        Ldt == L.node.dt
        Rdt == R.node.dt
        N1 == [Node EXCEPT !.l = L.node, !.r = R.node]
        c1 == IF isOrdinalBOP(Node.o)
              THEN IF ~typeIsOrdinal(Ldt) \/ ~typeIsOrdinal(Rdt)
                   THEN errorTypeExpected(R.c, IF ~typeIsOrdinal(Ldt) THEN L.node ELSE R.node,
                                          Node.o, "comparable type")
                   ELSE R.c
              ELSE IF ~typeIsEquality(Ldt) \/ ~typeIsEquality(Rdt)
                   THEN errorTypeExpected(R.c, IF ~typeIsEquality(Ldt) THEN L.node ELSE R.node,
                                          Node.o, "comparable type")
                   ELSE R.c
        cmp == typeIsCompatible(Ldt, Rdt)
        c2 == Crash(c1, cmp)
        c3 == IF ~Holds(c2, cmp) THEN errorMismatch(c2, N1, Node.o) ELSE c2
    IN  VR(c3, [N1 EXCEPT !.dt = typeCreateBasic("bool")], FALSE)

analyzerLogicalBOP(c, Node) ==
    LET L == analyzerValue(c, Node.l)
        R == analyzerValue(L.c, Node.r)
        Ldt == L.node.dt
        Rdt == R.node.dt
        N1 == [Node EXCEPT !.l = L.node, !.r = R.node]
        c1 == IF ~typeIsCondition(Ldt) \/ ~typeIsCondition(Rdt)
              THEN errorTypeExpected(R.c, IF ~typeIsCondition(Ldt) THEN L.node ELSE R.node,
                                     Node.o, "condition")
              ELSE R.c
    IN  VR(c1, [N1 EXCEPT !.dt = typeCreateBasic("bool")], FALSE)

\* mutant: the wrong level of indirection ends the lookup with Invalid
analyzerMemberBOP_StrictShape(c, Node) ==
    LET L == analyzerValue(c, Node.l)
        Ldt == L.node.dt
        N1 == [Node EXCEPT !.l = L.node]
        lvalue == IF isDerefBOP(Node.o) THEN TRUE ELSE L.lvalue
    IN  IF ~(typeIsRecord(Ldt) \/ (Ldt.tag = "typePtr" /\ typeIsRecord(Ldt.base)))
        THEN VR(errorTypeExpected(L.c, L.node, Node.o,
                                  IF isDerefBOP(Node.o) THEN "structure or union pointer"
                                                        ELSE "structure or union type"),
                [N1 EXCEPT !.dt = typeCreateInvalid], lvalue)
        ELSE LET c1 == IF isDerefBOP(Node.o)
                       THEN IF ~typeIsPtr(Ldt)
                            THEN errorTypeExpected(L.c, L.node, Node.o, "pointer")
                            ELSE L.c
                       ELSE IF typeIsPtr(Ldt)
                            THEN errorTypeExpected(L.c, L.node, Node.o,
                                                   "direct structure or union")
                            ELSE L.c
                 recordSym == typeGetRecordSym(Ldt)
                 field == symChild(recordSym, Node.r.literal)
             IN  IF recordSym # NoSym /\ c1 = L.c
                 THEN IF field # NoSym
                      THEN VR(c1, [N1 EXCEPT !.symbol = field,
                                             !.dt = typeDeepDuplicate(symDt(field))], lvalue)
                      ELSE VR(errorMember(c1, Node.o, Node.r, Ldt),
                              [N1 EXCEPT !.symbol = NoSym, !.dt = typeCreateInvalid], lvalue)
                 ELSE VR(c1, [N1 EXCEPT !.dt = typeCreateInvalid], lvalue)

analyzerMemberBOP(c, Node) ==
    LET L == analyzerValue(c, Node.l)
        Ldt == L.node.dt
        N1 == [Node EXCEPT !.l = L.node]
        lvalue == IF isDerefBOP(Node.o) THEN TRUE ELSE L.lvalue
    IN  IF ~(typeIsRecord(Ldt) \/ (Ldt.tag = "typePtr" /\ typeIsRecord(Ldt.base)))
        THEN VR(errorTypeExpected(L.c, L.node, Node.o,
                                  IF isDerefBOP(Node.o) THEN "structure or union pointer"
                                                        ELSE "structure or union type"),
                [N1 EXCEPT !.dt = typeCreateInvalid], lvalue)
        ELSE LET c1 == IF isDerefBOP(Node.o)
                       THEN IF ~typeIsPtr(Ldt)
                            THEN errorTypeExpected(L.c, L.node, Node.o, "pointer")
                            ELSE L.c
                       ELSE IF typeIsPtr(Ldt)
                            THEN errorTypeExpected(L.c, L.node, Node.o,
                                                   "direct structure or union")
                            ELSE L.c
                 recordSym == typeGetRecordSym(Ldt)
                 field == symChild(recordSym, Node.r.literal)
             IN  IF recordSym # NoSym
                 THEN IF field # NoSym
                      THEN VR(c1, [N1 EXCEPT !.symbol = field,
                                             !.dt = typeDeepDuplicate(symDt(field))], lvalue)
                      ELSE VR(errorMember(c1, Node.o, Node.r, Ldt),
                              [N1 EXCEPT !.symbol = NoSym, !.dt = typeCreateInvalid], lvalue)
                 ELSE VR(c1, [N1 EXCEPT !.dt = typeCreateInvalid], lvalue)

\* mutant: the flag of the left operand is returned
analyzerCommaBOP_LeftFlag(c, Node) ==
    LET L == analyzerValue(c, Node.l)
        R == analyzerValue(L.c, Node.r)
    IN  VR(R.c, [Node EXCEPT !.l = L.node, !.r = R.node,
                             !.dt = typeDeepDuplicate(R.node.dt)], L.lvalue)

analyzerCommaBOP(c, Node) ==
    LET L == analyzerValue(c, Node.l)
        R == analyzerValue(L.c, Node.r)
    IN  VR(R.c, [Node EXCEPT !.l = L.node, !.r = R.node,
                             !.dt = typeDeepDuplicate(R.node.dt)], R.lvalue)

analyzerUOP(c, Node) ==
    LET R == analyzerValue(c, Node.r)
        Rdt == R.node.dt
        N1 == [Node EXCEPT !.r = R.node]
        lvalue == Node.o = "*"
    IN  IF Node.o \in {"+", "-", "++", "--", "~"} THEN
            IF ~typeIsNumeric(Rdt)
            THEN VR(errorTypeExpected(R.c, R.node, Node.o, "numeric type"),
                    [N1 EXCEPT !.dt = typeCreateInvalid], lvalue)
            ELSE VR(IF Node.o \in {"++", "--"} /\ ~R.lvalue
                    THEN errorLvalue(R.c, R.node, Node.o) ELSE R.c,
                    [N1 EXCEPT !.dt = typeDeriveFrom(Rdt)], lvalue)
        ELSE IF Node.o = "!" THEN
            VR(IF ~typeIsCondition(Rdt)
               THEN errorTypeExpected(R.c, R.node, Node.o, "condition") ELSE R.c,
               [N1 EXCEPT !.dt = typeCreateBasic("bool")], lvalue)
        ELSE IF Node.o = "*" THEN
            IF typeIsPtr(Rdt)
            THEN VR(R.c, [N1 EXCEPT !.dt = typeDeriveBase(Rdt)], lvalue)
            ELSE VR(errorTypeExpected(R.c, R.node, Node.o, "pointer"),
                    [N1 EXCEPT !.dt = typeCreateInvalid], lvalue)
        ELSE IF Node.o = "&" THEN
            VR(IF ~R.lvalue THEN errorLvalue(R.c, R.node, Node.o) ELSE R.c,
               [N1 EXCEPT !.dt = typeDerivePtr(Rdt)], lvalue)
        ELSE VR(R.c, [N1 EXCEPT !.dt = typeCreateInvalid], lvalue)

analyzerTernary(c, Node) ==
    LET Cond == analyzerValue(c, Node.kids[1])
        L == analyzerValue(Cond.c, Node.l)
        R == analyzerValue(L.c, Node.r)
        Ldt == L.node.dt
        Rdt == R.node.dt
        N1 == [Node EXCEPT !.kids = <<Cond.node>>, !.l = L.node, !.r = R.node]
        c1 == IF ~typeIsCondition(Cond.node.dt)
              THEN errorTypeExpected(R.c, Cond.node, "ternary ?:", "condition value")
              ELSE R.c
        cmp == typeIsCompatible(Ldt, Rdt)
        c2 == Crash(c1, cmp)
        lvalue == L.lvalue /\ R.lvalue
    IN  IF Holds(c2, cmp)
        THEN VR(c2, [N1 EXCEPT !.dt = typeDeriveUnified(Ldt, Rdt)], lvalue)
        ELSE VR(errorMismatch(c2, N1, "ternary ?:"),
                [N1 EXCEPT !.dt = typeCreateInvalid], lvalue)

analyzerIndex(c, Node) ==
    LET L == analyzerValue(c, Node.l)
        R == analyzerValue(L.c, Node.r)
        Ldt == L.node.dt
        N1 == [Node EXCEPT !.l = L.node, !.r = R.node]
        c1 == IF ~typeIsNumeric(R.node.dt)
              THEN errorTypeExpected(R.c, R.node, "[]", "numeric index")
              ELSE R.c
    IN  IF typeIsArray(Ldt) \/ typeIsPtr(Ldt)
        THEN VR(c1, [N1 EXCEPT !.dt = typeDeriveBase(Ldt)], L.lvalue)
        ELSE VR(errorTypeExpected(c1, L.node, "[]", "array or pointer"),
                [N1 EXCEPT !.dt = typeCreateInvalid], L.lvalue)

\* the first loop of analyzerCall, from argument i (1-based): arguments paired
\* with parameters are visited and checked; it hands over to CallRest
CallParams(c, kids, i, fn, calleeSym) ==
    IF i > Len(kids) \/ i > fn.params THEN CallRest(c, kids, i)
    ELSE LET Param == analyzerValue(c, kids[i])
             cmp == typeIsCompatible(Param.node.dt, fn.paramTypes[i])
             c1 == Crash(Param.c, cmp)
             c2 == IF Holds(c1, cmp) THEN c1
                   ELSE IF calleeSym # NoSym
                        THEN errorNamedParamMismatch(c1, Param.node, i - 1, calleeSym,
                                                     Param.node.dt)
                        ELSE errorParamMismatch(c1, Param.node, i - 1, fn.paramTypes[i],
                                                Param.node.dt)
         IN  CallParams(c2, [kids EXCEPT ![i] = Param.node], i + 1, fn, calleeSym)

\* the second loop: the remaining arguments are only visited
CallRest(c, kids, i) ==
    IF i > Len(kids) THEN [c |-> c, kids |-> kids]
    ELSE LET Arg == analyzerValue(c, kids[i])
         IN  CallRest(Arg.c, [kids EXCEPT ![i] = Arg.node], i + 1)

analyzerCall(c, Node) ==
    LET L == analyzerValue(c, Node.l)
        Ldt == L.node.dt
        N1 == [Node EXCEPT !.l = L.node]
        children == Len(Node.kids)
    IN  IF ~typeIsCallable(Ldt)
        THEN VR(errorTypeExpected(L.c, L.node, "()", "function"),
                [N1 EXCEPT !.dt = typeCreateInvalid], FALSE)
        ELSE IF typeIsInvalid(Ldt)
        THEN VR(L.c, [N1 EXCEPT !.dt = typeCreateInvalid], FALSE)
        ELSE LET fn == IF typeIsPtr(Ldt) THEN Ldt.base ELSE Ldt
                 N2 == [N1 EXCEPT !.dt = typeDeriveReturn(Ldt)]
             IN  IF (IF Variadic(L.c, fn) THEN fn.params > children
                                          ELSE fn.params # children)
                 THEN VR(errorDegree(L.c, N2, "parameter(s)", fn.params, children,
                                     IF L.node.symbol # NoSym THEN L.node.symbol
                                                              ELSE "function"),
                         N2, FALSE)
                 ELSE LET args == CallParams(L.c, Node.kids, 1, fn, L.node.symbol)
                      IN  VR(args.c, [N2 EXCEPT !.kids = args.kids], FALSE)

analyzerCast(c, Node) ==
    LET L == analyzerType(Node.l)
        R == analyzerValue(c, Node.r)
    IN  VR(R.c, [Node EXCEPT !.r = R.node, !.dt = typeDeepDuplicate(L)], R.lvalue)

analyzerSizeof(c, Node) ==
    IF Node.r.tag = "astType"
    THEN VR(c, [Node EXCEPT !.dt = typeCreateBasic("int")], FALSE)
    ELSE LET R == analyzerValue(c, Node.r)
         IN  VR(R.c, [Node EXCEPT !.r = R.node, !.dt = typeCreateBasic("int")], FALSE)

analyzerLiteral(c, Node) ==
    LET lvalue == Node.litTag = "literalIdent"
    IN  CASE Node.litTag = "literalInt" ->
                VR(c, [Node EXCEPT !.dt = typeCreateBasic("int")], lvalue)
          [] Node.litTag = "literalChar" ->
                VR(c, [Node EXCEPT !.dt = typeCreateBasic("char")], lvalue)
          [] Node.litTag = "literalBool" ->
                VR(c, [Node EXCEPT !.dt = typeCreateBasic("bool")], lvalue)
          [] Node.litTag = "literalStr" ->
                VR(c, [Node EXCEPT !.dt = typeCreatePtr(typeCreateBasic("char"))], lvalue)
          [] Node.litTag = "literalIdent" ->
                IF symTag(Node.symbol) \in {"symEnumConstant", "symId", "symParam"}
                THEN IF symDt(Node.symbol).tag # "null"
                     THEN VR(c, [Node EXCEPT !.dt = typeDeepDuplicate(symDt(Node.symbol))],
                             lvalue)
                     ELSE VR(c, [Node EXCEPT !.dt = typeCreateInvalid], lvalue)
                ELSE VR(errorIllegalSymAsValue(c, Node, Node.symbol),
                        [Node EXCEPT !.dt = typeCreateInvalid], lvalue)
          [] OTHER -> VR(c, [Node EXCEPT !.dt = typeCreateInvalid], lvalue)

analyzerCompoundLiteral(c, Node) ==
    LET R == analyzerInitOrCompoundLiteral(c, Node, analyzerType(Node.l))
    IN  VR(R.c, R.node, TRUE)

IsInit(Node) == Node.tag = "astLiteral" /\ Node.litTag = "literalInit"

\* the struct loop, from element i: element i against field i
InitFields(c, kids, i, structSym) ==
    IF i > Len(kids) \/ i > Len(symChildren(structSym)) THEN [c |-> c, kids |-> kids]
    ELSE LET field == symChildren(structSym)[i]
             Checked(cur) ==
                 LET cmp == typeIsCompatible(cur.node.dt, symDt(field))
                     c1 == Crash(cur.c, cmp)
                     c2 == IF ~Holds(c1, cmp)
                           THEN errorInitFieldMismatch(c1, cur.node, structSym, field)
                           ELSE c1
                 IN  InitFields(c2, [kids EXCEPT ![i] = cur.node], i + 1, structSym)
         IN  Checked(IF IsInit(kids[i])
                     THEN analyzerInitOrCompoundLiteral(c, kids[i], symDt(field))
                     ELSE analyzerValue(c, kids[i]))

InitElements_OnlyOnce(c, kids, i, base) ==
    IF i > Len(kids) THEN [c |-> c, kids |-> kids]
    ELSE LET Checked(cur) ==
                 LET cmp == typeIsCompatible(cur.node.dt, base)
                     c1 == Crash(cur.c, cmp)
                     c2 == IF ~Holds(c1, cmp)
                              /\ \A k \in 1..Len(c1.diags) :
                                     c1.diags[k].o # "array initialization"
                           THEN errorTypeExpectedType(c1, cur.node, "array initialization",
                                                      base)
                           ELSE c1
                 IN  InitElements(c2, [kids EXCEPT ![i] = cur.node], i + 1, base)
         IN  Checked(IF IsInit(kids[i])
                     THEN analyzerInitOrCompoundLiteral(c, kids[i], base)
                     ELSE analyzerValue(c, kids[i]))

\* the array loop, from element i: every element against the element type
InitElements(c, kids, i, base) ==
    IF i > Len(kids) THEN [c |-> c, kids |-> kids]
    ELSE LET Checked(cur) ==
                 LET cmp == typeIsCompatible(cur.node.dt, base)
                     c1 == Crash(cur.c, cmp)
                     c2 == IF ~Holds(c1, cmp)
                           THEN errorTypeExpectedType(c1, cur.node, "array initialization",
                                                      base)
                           ELSE c1
                 IN  InitElements(c2, [kids EXCEPT ![i] = cur.node], i + 1, base)
         IN  Checked(IF IsInit(kids[i])
                     THEN analyzerInitOrCompoundLiteral(c, kids[i], base)
                     ELSE analyzerValue(c, kids[i]))

analyzerInitOrCompoundLiteral(c, Node, T) ==
    LET N1 == [Node EXCEPT !.dt = typeDeepDuplicate(T)]
        children == Len(Node.kids)
        Fields(fs) == VR(fs.c, [N1 EXCEPT !.kids = fs.kids], FALSE)
        Elems(es) == VR(es.c, [N1 EXCEPT !.kids = es.kids], FALSE)
        Scalar(R) ==
            LET cmp == typeIsCompatible(R.node.dt, T)
                c1 == Crash(R.c, cmp)
                c2 == IF ~Holds(c1, cmp)
                      THEN errorTypeExpectedType(c1, Node.r, "variable initialization", T)
                      ELSE c1
            IN  VR(c2, [N1 EXCEPT !.kids = <<R.node>>], FALSE)
    IN  IF typeIsInvalid(T) THEN VR(c, N1, FALSE)
        ELSE IF T.tag = "typeBasic" /\ symTag(T.basic) = "symStruct" THEN
            IF Len(symChildren(T.basic)) # children
            THEN VR(errorDegree(c, N1, "fields", Len(symChildren(T.basic)), children,
                                T.basic), N1, FALSE)
            ELSE Fields(InitFields(c, Node.kids, 1, T.basic))
        ELSE IF typeIsArray(T) THEN
            Elems(InitElements(IF T.array # -1 /\ T.array < children
                               THEN errorDegree(c, N1, "elements", T.array, children,
                                                "array")
                               ELSE c,
                               Node.kids, 1, T.base))
        ELSE
            IF children # 1
            THEN VR(errorDegree(c, N1, "element", 1, children, "scalar"), N1, FALSE)
            ELSE Scalar(analyzerValue(c, Node.kids[1]))

analyzerValue(c, Node) ==
    IF Node.tag = "astBOP" THEN
        IF isNumericBOP(Node.o) \/ isAssignmentBOP(Node.o) THEN analyzerBOP(c, Node)
        ELSE IF isOrdinalBOP(Node.o) \/ isEqualityBOP(Node.o)
            THEN analyzerComparisonBOP(c, Node)
        ELSE IF isLogicalBOP(Node.o) THEN analyzerLogicalBOP(c, Node)
        ELSE IF isMemberBOP(Node.o) THEN analyzerMemberBOP(c, Node)
        ELSE IF isCommaBOP(Node.o) THEN analyzerCommaBOP(c, Node)
        ELSE VR(c, [Node EXCEPT !.dt = typeCreateInvalid], TRUE)
    ELSE IF Node.tag = "astUOP" THEN analyzerUOP(c, Node)
    ELSE IF Node.tag = "astTOP" THEN analyzerTernary(c, Node)
    ELSE IF Node.tag = "astIndex" THEN analyzerIndex(c, Node)
    ELSE IF Node.tag = "astCall" THEN analyzerCall(c, Node)
    ELSE IF Node.tag = "astCast" THEN analyzerCast(c, Node)
    ELSE IF Node.tag = "astSizeof" THEN analyzerSizeof(c, Node)
    ELSE IF Node.tag = "astLiteral" THEN
        IF Node.litTag = "literalCompound" THEN analyzerCompoundLiteral(c, Node)
        ELSE analyzerLiteral(c, Node)
    ELSE VR(c, [Node EXCEPT !.dt = typeCreateInvalid], TRUE)

(***************************************************************************)
(* The statement driver (analyzer.c)                                       *)
(***************************************************************************)
RECURSIVE analyzerNode(_, _), NodeList(_, _, _)

\* declaration analysis is an external collaborator: it types no value node here
analyzerDecl(c, Node) == VR(c, Node, FALSE)

\* for (Current = Node->firstChild; Current; Current = Current->nextSibling)
NodeList(c, kids, i) ==
    IF i > Len(kids) THEN [c |-> c, kids |-> kids]
    ELSE LET Cur == analyzerNode(c, kids[i])
         IN  NodeList(Cur.c, [kids EXCEPT ![i] = Cur.node], i + 1)

analyzerModule(c, Node) ==
    LET ks == NodeList(c, Node.kids, 1)
    IN  VR(ks.c, [Node EXCEPT !.kids = ks.kids], FALSE)

analyzerUsing(c, Node) ==
    LET R == analyzerNode(c, Node.r)
    IN  VR(R.c, [Node EXCEPT !.r = R.node], FALSE)

analyzerFnImpl_NoRestore(c, Node) ==
    LET D == analyzerDecl(c, Node.l)
        c1 == IF ~typeIsFunction(symDt(Node.l.kids[1].symbol))
              THEN analyzerErrorExpected(D.c, Node, "implementation", "function",
                                         symDt(Node.symbol))
              ELSE D.c
        c2 == IF typeIsCallable(symDt(Node.symbol))
              THEN [c1 EXCEPT !.returnType = typeDeriveReturn(symDt(Node.symbol))]
              ELSE [Crash(c1, "UB") EXCEPT !.returnType = typeCreateInvalid]
        R == analyzerNode(c2, Node.r)
    IN  VR(R.c, [Node EXCEPT !.l = D.node, !.r = R.node], FALSE)

analyzerFnImpl(c, Node) ==
    LET D == analyzerDecl(c, Node.l)
        c1 == IF ~typeIsFunction(symDt(Node.l.kids[1].symbol))
              THEN analyzerErrorExpected(D.c, Node, "implementation", "function",
                                         symDt(Node.symbol))
              ELSE D.c
        oldReturn == c1.returnType
        \* typeDeriveReturn of a non-callable type duplicates its null returnType
        c2 == IF typeIsCallable(symDt(Node.symbol))
              THEN [c1 EXCEPT !.returnType = typeDeriveReturn(symDt(Node.symbol))]
              ELSE [Crash(c1, "UB") EXCEPT !.returnType = typeCreateInvalid]
        R == analyzerNode(c2, Node.r)
    IN  VR([R.c EXCEPT !.returnType = oldReturn],
           [Node EXCEPT !.l = D.node, !.r = R.node], FALSE)

analyzerCode(c, Node) ==
    LET ks == NodeList(c, Node.kids, 1)
    IN  VR(ks.c, [Node EXCEPT !.kids = ks.kids], FALSE)

\* analyzerValue(ctx, Node) as the statements call it: for a value node this is
\* the analyzerValue call of analyzerNode, for any other node analyzerValue's
\* fallback
ValueAt(c, Node) ==
    IF astIsValueTag(Node.tag) THEN analyzerNode(c, Node)
    ELSE VR(c, [Node EXCEPT !.dt = typeCreateInvalid], TRUE)

analyzerBranch(c, Node) ==
    LET Checked(condRes) ==
            LET c1 == IF ~typeIsCondition(condRes.node.dt)
                      THEN analyzerErrorExpected(condRes.c, condRes.node, "if", "condition",
                                                 condRes.node.dt)
                      ELSE condRes.c
                L == analyzerNode(c1, Node.l)
                R == IF IsNull(Node.r) THEN VR(L.c, Node.r, FALSE)
                     ELSE analyzerNode(L.c, Node.r)
            IN  VR(R.c, [Node EXCEPT !.kids = <<condRes.node>>, !.l = L.node, !.r = R.node],
                   FALSE)
    IN  Checked(ValueAt(c, Node.kids[1]))

analyzerLoop(c, Node) ==
    LET isDo == Node.l.tag = "astCode"
        cond == IF isDo THEN Node.r ELSE Node.l
        code == IF isDo THEN Node.l ELSE Node.r
        Checked(condRes) ==
            LET c1 == IF ~typeIsCondition(condRes.node.dt)
                      THEN analyzerErrorExpected(condRes.c, condRes.node, "do loop",
                                                 "condition", condRes.node.dt)
                      ELSE condRes.c
                C == analyzerNode(c1, code)
            IN  VR(C.c, IF isDo THEN [Node EXCEPT !.l = C.node, !.r = condRes.node]
                                ELSE [Node EXCEPT !.l = condRes.node, !.r = C.node], FALSE)
    IN  Checked(ValueAt(c, cond))

\* a value position of the for header: visited unless empty
IterValue(c, Node) ==
    IF Node.tag # "astEmpty" THEN ValueAt(c, Node) ELSE VR(c, Node, FALSE)

analyzerIter(c, Node) ==
    LET init == Node.kids[1]
        cond == Node.kids[2]
        iter == Node.kids[3]
        Code_(I, condRes, It) ==
            LET L == analyzerNode(It.c, Node.l)
            IN  VR(L.c, [Node EXCEPT !.kids = <<I.node, condRes.node, It.node>>,
                                     !.l = L.node], FALSE)
        Checked(I, condRes) ==
            Code_(I, condRes,
                  IterValue(IF cond.tag # "astEmpty" /\ ~typeIsCondition(condRes.node.dt)
                            THEN analyzerErrorExpected(condRes.c, condRes.node, "for loop",
                                                       "condition", condRes.node.dt)
                            ELSE condRes.c,
                            iter))
        Cond(I) == Checked(I, IterValue(I.c, cond))
    IN  Cond(IF init.tag = "astDecl" THEN analyzerNode(c, init) ELSE IterValue(c, init))

analyzerReturn(c, Node) ==
    IF ~IsNull(Node.r) THEN
        LET Checked(R) ==
                LET cmp == typeIsCompatible(R.node.dt, R.c.returnType)
                    c1 == Crash(R.c, cmp)
                    c2 == IF ~Holds(c1, cmp)
                          THEN analyzerErrorExpectedType(c1, R.node, "return", c1.returnType,
                                                         R.node.dt)
                          ELSE c1
                IN  VR(c2, [Node EXCEPT !.r = R.node], FALSE)
        IN  Checked(ValueAt(c, Node.r))
    ELSE
        \* typeIsVoid reads through ctx->returnType, which analyzerInit never set
        LET isVoid == IF c.returnType.tag = "null" THEN "UB"
                      ELSE B3(typeIsVoid(c.returnType))
            c1 == Crash(c, isVoid)
        IN  VR(IF ~Holds(c1, isVoid)
               THEN analyzerErrorExpectedType(c1, Node, "return statement", c1.returnType,
                                              typeCreateBasic("void"))
               ELSE c1,
               Node, FALSE)

analyzerNode(c, Node) ==
    IF Node.tag = "astEmpty" THEN VR(c, Node, FALSE)
    ELSE IF Node.tag = "astInvalid" THEN VR(c, Node, FALSE)
    ELSE IF Node.tag = "astModule" THEN analyzerModule(c, Node)
    ELSE IF Node.tag = "astUsing" THEN analyzerUsing(c, Node)
    ELSE IF Node.tag = "astFnImpl" THEN analyzerFnImpl(c, Node)
    ELSE IF Node.tag = "astDecl" THEN analyzerDecl(c, Node)
    ELSE IF Node.tag = "astCode" THEN analyzerCode(c, Node)
    ELSE IF Node.tag = "astBranch" THEN analyzerBranch(c, Node)
    ELSE IF Node.tag = "astLoop" THEN analyzerLoop(c, Node)
    ELSE IF Node.tag = "astIter" THEN analyzerIter(c, Node)
    ELSE IF Node.tag = "astReturn" THEN analyzerReturn(c, Node)
    ELSE IF Node.tag = "astBreak" THEN VR(c, Node, FALSE)
    ELSE IF astIsValueTag(Node.tag) THEN analyzerValue(c, Node)
    ELSE VR(c, Node, FALSE)

\* analyzer(): a fresh context, one visit of the tree, the counters as result
analyzer(T, j, nr) == analyzerNode(analyzerInit(j, nr), T)

(***************************************************************************)
(* Trees handed to the analyzer: what the parser builds, with its          *)
(* symbols already resolved.  A node's location is its path from the root. *)
(***************************************************************************)
\* depth of the expressions analysed on their own
MaxExprDepth == 1
\* depth of the expressions placed under a statement
MaxStmtExprDepth == 0
\* longest argument list of a generated call
MaxArgs == 2

astCreateLiteral(litTag, literal) ==
    [astNode("astLiteral") EXCEPT !.litTag = litTag, !.literal = literal]

astCreateIdent(s) == [astCreateLiteral("literalIdent", s) EXCEPT !.symbol = s]

astCreateType(name) == [astNode("astType") EXCEPT !.literal = name]

astCreateBOP(l, o, r) == [astNode("astBOP") EXCEPT !.o = o, !.l = l, !.r = r]

\* l.field and l->field: the right operand is the field-name literal
astCreateMember(l, o, field) ==
    astCreateBOP(l, o, astCreateLiteral("literalIdent", field))

astCreateUOP(o, r) == [astNode("astUOP") EXCEPT !.o = o, !.r = r]

astCreateTOP(cond, l, r) == [astNode("astTOP") EXCEPT !.kids = <<cond>>, !.l = l, !.r = r]

astCreateIndex(l, r) == [astNode("astIndex") EXCEPT !.l = l, !.r = r]

astCreateCall(l, args) == [astNode("astCall") EXCEPT !.l = l, !.kids = args]

astCreateCast(typeName, r) ==
    [astNode("astCast") EXCEPT !.l = astCreateType(typeName), !.r = r]

astCreateSizeof(r) == [astNode("astSizeof") EXCEPT !.r = r]

astCreateCompound(typeName, elems) ==
    [astCreateLiteral("literalCompound", "") EXCEPT !.l = astCreateType(typeName),
                                                     !.kids = elems]

astCreateInit(elems) == [astCreateLiteral("literalInit", "") EXCEPT !.kids = elems]

astCreateStmt(tag, kids, l, r) == [astNode(tag) EXCEPT !.kids = kids, !.l = l, !.r = r]

astCreateFnImpl(s, body) ==
    [astNode("astFnImpl") EXCEPT
        !.symbol = s,
        !.l = [astNode("astDecl") EXCEPT
                  !.kids = <<[astNode("astLiteral") EXCEPT !.litTag = "literalIdent",
                                                           !.literal = s, !.symbol = s]>>],
        !.r = body]

One == astCreateLiteral("literalInt", "1")
Str == astCreateLiteral("literalStr", "x")
True == astCreateLiteral("literalBool", "true")

Leaves ==
    {One, Str} \cup
    {astCreateIdent(s) : s \in {"x", "s", "sp", "S", "f", "g", "v", "arr"}}

\* argument lists of length 1..MaxArgs holding e once and the literal 1 elsewhere
ArgsWith(e) ==
    {[i \in 1..k |-> IF i = p THEN e ELSE One] : <<k, p>> \in
        {kp \in (1..MaxArgs) \X (1..MaxArgs) : kp[2] <= kp[1]}}

\* argument lists of literals, of length 0..MaxArgs
LiteralArgs == {[i \in 1..k |-> One] : k \in 0..MaxArgs} \cup {<<Str>>}

\* a named callee and an unnamed one
Callees == {astCreateIdent("f2"), astCreateBOP(One, ",", astCreateIdent("f"))}

\* the expressions with e as one operand
Build(e) ==
    {astCreateBOP(e, o, One) : o \in {"+", "=", "<", "==", "&&"}}
    \cup {astCreateBOP(astCreateIdent("x"), o, e) : o \in {"+", "=", "<"}}
    \cup {astCreateBOP(One, ",", e)}
    \cup {astCreateMember(e, o, fld) : o \in {".", "->"}, fld \in {"a", "zz"}}
    \cup {astCreateUOP(o, e) : o \in {"-", "!", "*", "&", "++"}}
    \cup {astCreateTOP(True, e, One), astCreateTOP(True, e, Str),
          astCreateTOP(True, astCreateIdent("x"), e), astCreateTOP(e, One, One)}
    \cup {astCreateIndex(e, One), astCreateIndex(astCreateIdent("arr"), e)}
    \cup {astCreateCall(e, args) : args \in LiteralArgs}
    \cup {astCreateCall(fn, args) : fn \in Callees, args \in ArgsWith(e)}
    \cup {astCreateCast("int*", e), astCreateSizeof(e)}
    \cup {astCreateCompound("int", <<e>>), astCreateCompound("S", <<e>>),
          astCreateCompound("S", <<e, One>>), astCreateCompound("int[2]", <<e, One>>),
          astCreateCompound("int[2]", <<astCreateInit(<<e>>), One>>)}

RECURSIVE Exprs(_)
Exprs(d) ==
    IF d = 0 THEN Leaves
    ELSE Exprs(d - 1)
         \cup UNION {Build(e) : e \in Exprs(d - 1)}
         \cup {astCreateSizeof(astCreateType("int"))}
         \cup {astCreateCompound(t, <<>>) : t \in {"int", "S", "int[2]"}}

Body(e) == astCreateStmt("astCode", <<e, astNode("astBreak"), One>>, NoNode, NoNode)

Return(e) == astCreateStmt("astReturn", <<>>, NoNode, e)

\* the statements with e at their value position
Stmts(e) ==
    {astCreateStmt("astBranch", <<e>>, Body(One), NoNode),
     astCreateStmt("astBranch", <<True>>, Body(e), Return(e)),
     astCreateStmt("astLoop", <<>>, e, Body(One)),
     astCreateStmt("astLoop", <<>>, Body(One), e),
     astCreateStmt("astIter", <<astNode("astEmpty"), e, astNode("astEmpty")>>,
                   Body(One), NoNode),
     astCreateStmt("astIter", <<[astNode("astDecl") EXCEPT !.kids = <<astCreateIdent("x")>>],
                                astNode("astEmpty"), e>>, Body(One), NoNode),
     Return(e),
     Return(NoNode),
     astCreateStmt("astModule",
                   <<astCreateStmt("astUsing", <<>>, NoNode, astNode("astInvalid")),
                     astCreateFnImpl("f", Body(Return(e))),
                     astCreateFnImpl("g", Body(Return(NoNode)))>>, NoNode, NoNode),
     astCreateFnImpl("x", Body(Return(e))),
     Body(astCreateBOP(astCreateIdent("x"), "+", e))}

\* operands that report a diagnostic of their own and still have a type:
\* 1 = 1 (int), (1 = 1, s) (struct S), s && 1 (bool)
NotLvalue == astCreateBOP(One, "=", One)

ThenS == astCreateBOP(NotLvalue, ",", astCreateIdent("s"))

NotCondition == astCreateBOP(astCreateIdent("s"), "&&", One)

\* operators over such operands
Nested ==
    {astCreateBOP(NotLvalue, o, ThenS) : o \in {"=", "+=", "<", "&&"}}
    \cup {astCreateBOP(ThenS, "+", NotCondition)}
    \cup {astCreateUOP(o, ThenS) : o \in {"++", "!", "*"}}
    \cup {astCreateUOP("++", NotLvalue), astCreateUOP("&", NotLvalue)}
    \cup {astCreateTOP(ThenS, NotLvalue, NotCondition),
          astCreateTOP(NotCondition, NotLvalue, ThenS)}
    \cup {astCreateIndex(ThenS, NotCondition), astCreateIndex(NotLvalue, ThenS)}

\* unary & over the l-value forms (dereference, both member accesses, compound
\* literal) and over operands that are Invalid: -s, an unknown field, a struct tag
AddressOf ==
    {astCreateUOP("&", e) :
        e \in {astCreateUOP("*", astCreateIdent("sp")),
               astCreateMember(astCreateIdent("sp"), "->", "a"),
               astCreateMember(astCreateIdent("s"), ".", "a"),
               astCreateMember(NotLvalue, ".", "a"),
               astCreateCompound("int", <<One>>),
               astCreateUOP("-", astCreateIdent("s")),
               astCreateMember(astCreateIdent("sp"), "->", "zz"),
               astCreateUOP("&", astCreateIdent("S"))}}

\* most elements of a generated brace-initializer
MaxElems == 3

\* elements of a brace-initializer: values of type int, char*, struct S, and
\* nested brace-initializers
Elements ==
    {One, Str, astCreateIdent("s"), astCreateInit(<<One>>),
     astCreateInit(<<astCreateIdent("s")>>), astCreateInit(<<One, Str>>)}

\* the brace-initializers of a declaration
Initializers ==
    {astCreateInit(es) : es \in UNION {[1..k -> Elements] : k \in 0..MaxElems}}

\* the declared types they initialize: int[2], int[], int[2][2], struct S, int,
\* char*, and the Invalid type of a declaration that failed
ExpectedTypes ==
    {typeCreateArray(typeCreateBasic("int"), 2),
     typeCreateArray(typeCreateBasic("int"), -1),
     typeCreateArray(typeCreateArray(typeCreateBasic("int"), 2), 2),
     typeCreateBasic("S"), typeCreateBasic("int"),
     typeCreatePtr(typeCreateBasic("char")), typeCreateInvalid}

\* the return statements placed in function bodies: without a value, with an
\* int, with a struct, and with an operand that reports a diagnostic of its own
Returns ==
    {Return(NoNode), Return(One), Return(astCreateIdent("s")), Return(NotLvalue)}

\* an implementation of int f(int) or void h() whose body holds a nested
\* implementation followed by a return of the outer function
Implementations ==
    {astCreateFnImpl(outer,
        astCreateStmt("astCode",
                      <<astCreateFnImpl(inner,
                            astCreateStmt("astCode", <<a>>, NoNode, NoNode)),
                        b>>, NoNode, NoNode)) :
        outer \in {"f", "h"}, inner \in {"f", "h"}, a \in Returns, b \in Returns}

RECURSIVE Label(_, _)
\* writes every node's location
Label(n, path) ==
    IF IsNull(n) THEN n
    ELSE [n EXCEPT !.location = path,
                   !.l = Label(n.l, Append(path, -1)),
                   !.r = Label(n.r, Append(path, -2)),
                   !.kids = [i \in 1..Len(n.kids) |-> Label(n.kids[i], Append(path, i))]]

Trees ==
    {Label(t, <<>>) : t \in Exprs(MaxExprDepth) \cup Nested \cup AddressOf \cup Implementations
                          \cup UNION {Stmts(e) : e \in Exprs(MaxStmtExprDepth)}}

(***************************************************************************)
(* The analysis pass as a state machine                                    *)
(***************************************************************************)
Init ==
    /\ \/ /\ Tree \in Trees
          /\ pc = "parsed"
          /\ DT = typeCreateInvalid
       \/ /\ Tree \in {Label(t, <<>>) : t \in Initializers}
          /\ pc = "declared"
          /\ DT \in ExpectedTypes
    /\ out = NoNode
    /\ ctx = NoCtx
    /\ isLvalue = FALSE
    /\ heap = NoHeap
    /\ Model = typeCreateInvalid
    /\ tcall = NoCall

\* analyzer(Tree, Types): the whole pass, under one outcome of its indeterminate reads
Analyzer ==
    /\ pc = "parsed"
    /\ \E j \in BOOLEAN, nr \in NullReads :
          LET Passed(R) ==
                  /\ pc' = IF R.c.segv THEN "segv" ELSE "done"
                  /\ out' = IF R.c.segv THEN NoNode ELSE R.node
                  /\ ctx' = [errors |-> R.c.errors, warnings |-> R.c.warnings,
                             diags |-> R.c.diags, returnType |-> R.c.returnType]
                  /\ isLvalue' = (~R.c.segv /\ astIsValueTag(Tree.tag) /\ R.lvalue)
          IN  Passed(analyzer(Tree, j, nr))
    /\ UNCHANGED <<DT, Model, tcall, Tree, heap>>

\* analyzerInitOrCompoundLiteral(ctx, Tree, DT) as declaration analysis calls it
\* on the initializer of a declared symbol of type DT
Initializer ==
    /\ pc = "declared"
    /\ \E j \in BOOLEAN, nr \in NullReads :
          LET Passed(R) ==
                  /\ pc' = IF R.c.segv THEN "segv" ELSE "done"
                  /\ out' = IF R.c.segv THEN NoNode ELSE R.node
                  /\ ctx' = [errors |-> R.c.errors, warnings |-> R.c.warnings,
                             diags |-> R.c.diags, returnType |-> R.c.returnType]
                  /\ isLvalue' = (~R.c.segv /\ R.lvalue)
          IN  Passed(analyzerInitOrCompoundLiteral(analyzerInit(j, nr), Tree, DT))
    /\ UNCHANGED <<DT, Model, tcall, Tree, heap>>

Next == Analyzer \/ Initializer

Spec == Init /\ [][Next]_vars

(***************************************************************************)
(* Properties of the analysis pass                                         *)
(***************************************************************************)
RECURSIVE SubNodes(_)
\* the nodes of a tree the analyzer is responsible for: declarations belong to
\* declaration analysis and the right operand of a member access is a field name
SubNodes(n) ==
    IF IsNull(n) \/ n.tag = "astDecl" THEN {}
    ELSE {n} \cup SubNodes(n.l)
             \cup (IF n.tag = "astBOP" /\ isMemberBOP(n.o) THEN {} ELSE SubNodes(n.r))
             \cup UNION {SubNodes(n.kids[i]) : i \in 1..Len(n.kids)}

Typed(n) == astIsValueTag(n.tag) => n.dt.tag # "null"

\* the diagnostics of the given kinds reported at a location
DiagsAt(kinds, loc) ==
    {k \in 1..Len(ctx.diags) : ctx.diags[k].kind \in kinds /\ ctx.diags[k].at = loc}

ParamMismatchKinds == {"errorParamMismatch", "errorNamedParamMismatch"}

\* C1: after a complete pass every value-expression node of the tree (operands,
\* call arguments, initializer elements; not the field name of a member access)
\* has a non-null dt, whatever was reported
C1_EveryValueNodeTyped ==
    pc = "done" => \A n \in SubNodes(out) : Typed(n)

\* C2: no type-expected diagnostic is reported about an operand whose type is
\* Invalid, by any expression node or statement-level check, and no mismatch
\* diagnostic names an Invalid operand
C2_InvalidPoisoning ==
    \A k \in 1..Len(ctx.diags) :
        LET d == ctx.diags[k]
        IN  /\ d.kind \in {"errorTypeExpected", "errorTypeExpectedType",
                           "analyzerErrorExpected", "analyzerErrorExpectedType"}
                  => ~typeIsInvalid(d.found)
            /\ d.kind = "errorMismatch"
                  => ~typeIsInvalid(d.found) /\ ~typeIsInvalid(d.other)

\* a call through the name of a function declared non-variadic, with the wrong
\* number of arguments
NonVariadicArityMismatch(n) ==
    /\ n.tag = "astCall"
    /\ n.l.tag = "astLiteral" /\ n.l.litTag = "literalIdent"
    /\ symDt(n.l.symbol).tag = "typeFunction"
    /\ symDt(n.l.symbol).variadic = "clear"
    /\ Len(n.kids) # symDt(n.l.symbol).params

\* C3: a call of a non-variadic function with the wrong number of arguments
\* reports exactly one arity diagnostic and no parameter mismatch, has the
\* function's return type, and every argument subtree is still analysed
C3_ArityMismatch ==
    pc = "done" =>
        \A n \in SubNodes(out) :
            NonVariadicArityMismatch(n) /\ n.l.dt.tag # "null" =>
                /\ Cardinality(DiagsAt({"errorDegree"}, n.location)) = 1
                /\ \A i \in 1..Len(n.kids) :
                       DiagsAt(ParamMismatchKinds, n.kids[i].location) = {}
                /\ n.dt = typeDeepDuplicate(symDt(n.l.symbol).returnType)
                /\ \A i \in 1..Len(n.kids) : \A m \in SubNodes(n.kids[i]) : Typed(m)

\* int f(int); f("x")
CallFStr == Label(astCreateCall(astCreateIdent("f"), <<Str>>), <<>>)

\* an analysed call whose callee is callable and whose arity check passed
CheckedCall(n) ==
    /\ n.tag = "astCall"
    /\ n.l.dt.tag # "null"
    /\ typeIsCallable(n.l.dt) /\ ~typeIsInvalid(n.l.dt)
    /\ n.dt.tag # "null"
    /\ DiagsAt({"errorDegree"}, n.location) = {}

CalleeFn(n) == IF typeIsPtr(n.l.dt) THEN n.l.dt.base ELSE n.l.dt

Min(a, b) == IF a < b THEN a ELSE b

\* every argument paired with a parameter is reported exactly when its type is
\* not compatible with the parameter's, once, with its 1-based index
ParamMismatchesIndexed ==
    \A n \in SubNodes(out) :
        CheckedCall(n) =>
            \A i \in 1..Min(CalleeFn(n).params, Len(n.kids)) :
                LET cmp == typeIsCompatible(n.kids[i].dt, CalleeFn(n).paramTypes[i])
                    at == DiagsAt(ParamMismatchKinds, n.kids[i].location)
                IN  /\ cmp = "F" => Cardinality(at) = 1 /\ \A k \in at : ctx.diags[k].n = i
                    /\ cmp = "T" => at = {}

\* C4 as stated: f("x") for int f(int) reports a parameter mismatch at parameter 1
\* and has type int; every incompatible argument among the first fn.params is
\* reported once with its 1-based index
C4_StringArgumentMismatch ==
    pc = "done" =>
        /\ Tree = CallFStr =>
              /\ \E k \in DiagsAt(ParamMismatchKinds, out.kids[1].location) :
                     ctx.diags[k].n = 1
              /\ out.dt = typeCreateBasic("int")
        /\ ParamMismatchesIndexed

\* C4 amended: f("x") for int f(int) reports nothing and has type int, a pointer
\* being compatible with a numeric basic parameter; in a call that passes the
\* arity check every argument among the first fn.params whose type is not
\* compatible with its parameter's is reported once with its 1-based index
C4_ParamMismatchIndexed ==
    pc = "done" =>
        /\ Tree = CallFStr => ctx.diags = <<>> /\ out.dt = typeCreateBasic("int")
        /\ ParamMismatchesIndexed

C4_Witness ==
    /\ pc = "done" /\ Tree = CallFStr
    /\ out.kids[1].dt = typeCreatePtr(typeCreateBasic("char"))
    /\ out.dt = typeCreateBasic("int")

\* true ? 1 : "x"
TernaryIntStr == Label(astCreateTOP(True, One, Str), <<>>)

\* C5 as stated: true ? 1 : "x" reports a mismatch and has type Invalid
C5_TernaryIntStrMismatch ==
    pc = "done" /\ Tree = TernaryIntStr =>
        /\ DiagsAt({"errorMismatch"}, out.location) # {}
        /\ typeIsInvalid(out.dt)

\* C5 amended: true ? 1 : "x" reports nothing and has type int, a numeric basic
\* type being compatible with a pointer; a ternary whose arm types are not
\* compatible reports one mismatch and has type Invalid, and one whose arm types
\* are compatible reports none and has their unified type
C5_TernaryArms ==
    pc = "done" =>
        /\ Tree = TernaryIntStr => ctx.diags = <<>> /\ out.dt = typeCreateBasic("int")
        /\ \A n \in SubNodes(out) :
               n.tag = "astTOP" /\ n.dt.tag # "null" =>
                   LET cmp == typeIsCompatible(n.l.dt, n.r.dt)
                       at == DiagsAt({"errorMismatch"}, n.location)
                   IN  /\ cmp = "F" => Cardinality(at) = 1 /\ typeIsInvalid(n.dt)
                       /\ cmp = "T" => at = {} /\ n.dt = typeDeriveUnified(n.l.dt, n.r.dt)

C5_Witness ==
    /\ pc = "done" /\ Tree = TernaryIntStr
    /\ out.r.dt = typeCreatePtr(typeCreateBasic("char"))
    /\ out.dt = typeCreateBasic("int")

(***************************************************************************)
(* Claims about calls of variadic functions                                *)
(***************************************************************************)
\* a call through the name of a function declared variadic
VariadicCall(n) ==
    /\ n.tag = "astCall"
    /\ n.l.tag = "astLiteral" /\ n.l.litTag = "literalIdent"
    /\ symDt(n.l.symbol).tag = "typeFunction"
    /\ symDt(n.l.symbol).variadic = "set"
    /\ n.l.dt.tag # "null"

\* C11: a call through the name of a function declared variadic with k fixed
\* parameters reports no arity diagnostic when it has k or more arguments and
\* exactly one when it has fewer, and the callee type the call checks still
\* carries the declared variadic flag
C11_VariadicArity ==
    pc = "done" =>
        \A n \in SubNodes(out) :
            VariadicCall(n) =>
                /\ Cardinality(DiagsAt({"errorDegree"}, n.location))
                       = (IF Len(n.kids) >= symDt(n.l.symbol).params THEN 0 ELSE 1)
                /\ n.l.dt.tag = "typeFunction"
                /\ n.l.dt.variadic = symDt(n.l.symbol).variadic

(***************************************************************************)
(* Claims about the classification predicates                              *)
(***************************************************************************)
OperandClasses ==
    {"typeIsNumeric", "typeIsOrdinal", "typeIsEquality", "typeIsAssignment",
     "typeIsCondition"}

RECURSIVE LvalueRule(_)
\* the flag as a function of the node's tag, operator, literal class and its
\* children's flags alone
LvalueRule(n) ==
    CASE n.tag = "astBOP" /\ n.o = "." -> LvalueRule(n.l)
      [] n.tag = "astBOP" /\ n.o = "->" -> TRUE
      [] n.tag = "astBOP" /\ n.o = "," -> LvalueRule(n.r)
      [] n.tag = "astBOP" /\ n.o \notin {".", "->", ","} -> FALSE
      [] n.tag = "astUOP" -> n.o = "*"
      [] n.tag = "astTOP" -> LvalueRule(n.l) /\ LvalueRule(n.r)
      [] n.tag = "astIndex" -> LvalueRule(n.l)
      [] n.tag = "astCast" -> LvalueRule(n.r)
      [] n.tag = "astLiteral" -> n.litTag \in {"literalIdent", "literalCompound"}
      [] OTHER -> FALSE

\* C13: the l-value flag returned for a value tree is the one its shape gives
\* (operators, calls and sizeof false except unary * and -> true; . and index
\* the left operand's flag, comma the right one's, ternary both arms', cast the
\* operand's; identifier and compound literals true, other literals false),
\* whatever types were derived and diagnostics reported
C13_LvalueByShape ==
    pc = "done" /\ astIsValueTag(Tree.tag) => isLvalue = LvalueRule(Tree)

\* a ternary whose arms are both l-values is one, although a diagnostic was
\* reported about it
C13_Witness ==
    /\ pc = "done" /\ Tree.tag = "astTOP"
    /\ isLvalue
    /\ ctx.errors > 0

RECURSIVE Visited(_)
\* the visit of a statement reached every child it owns: a visited value node
\* has its dt
Visited(n) ==
    IF IsNull(n) THEN TRUE
    ELSE IF astIsValueTag(n.tag) THEN n.dt.tag # "null"
    ELSE IF n.tag \in {"astModule", "astCode"}
        THEN \A i \in 1..Len(n.kids) : Visited(n.kids[i])
    ELSE IF n.tag = "astBranch"
        THEN Visited(n.kids[1]) /\ Visited(n.l) /\ Visited(n.r)
    ELSE IF n.tag \in {"astFnImpl", "astReturn"} THEN Visited(n.r)
    ELSE TRUE

\* C15: the pass over any tree runs to its end, and every child of every
\* Module and Block node and both branches of every if are visited, whatever
\* was reported before them
C15_TraversalCompletes ==
    /\ pc # "segv"
    /\ pc = "done" => Visited(out)

(***************************************************************************)
(* SpecHeap: the type nodes as heap objects.  node[a] is the type at       *)
(* address a, arr[p] the parameter array at address p (a sequence of node  *)
(* addresses); 0 is the null pointer.  free records the address; malloc    *)
(* and calloc hand out addresses never handed out before.  src is the      *)
(* address of the type t under study, roots the types that are owned       *)
(* separately (t, its copies, derived types), differs those that are not   *)
(* or no longer copies of t, last the source and result of the latest      *)
(* duplication.                                                            *)
(***************************************************************************)
\* what a heap operation returns: the heap after it and the address it yields
At(h, a) == [h |-> h, a |-> a]

typeCreateIn(h, tag) ==
    At([h EXCEPT !.node = Append(@, [tag |-> tag, basic |-> NoSym, base |-> 0,
                                     array |-> 0, returnType |-> 0,
                                     paramTypes |-> 0, params |-> 0,
                                     variadic |-> "uninit"])],
       Len(h.node) + 1)

typeCreateBasicIn(h, basic) ==
    LET N == typeCreateIn(h, "typeBasic")
    IN  At([N.h EXCEPT !.node[N.a].basic = basic], N.a)

typeCreatePtrIn(h, base) ==
    LET N == typeCreateIn(h, "typePtr")
    IN  At([N.h EXCEPT !.node[N.a].base = base], N.a)

typeCreateArrayIn(h, base, size) ==
    LET N == typeCreateIn(h, "typeArray")
    IN  At([N.h EXCEPT !.node[N.a].base = base, !.node[N.a].array = size], N.a)

typeCreateFunctionIn(h, returnType, paramTypes, params) ==
    LET N == typeCreateIn(h, "typeFunction")
    IN  At([N.h EXCEPT !.node[N.a].returnType = returnType,
                       !.node[N.a].paramTypes = paramTypes,
                       !.node[N.a].params = params], N.a)

typeCreateInvalidIn(h) == typeCreateIn(h, "typeInvalid")

\* calloc(n, sizeof(type*)): a fresh zeroed array
callocIn(h, n) ==
    At([h EXCEPT !.arr = Append(@, [i \in 1..n |-> 0])], Len(h.arr) + 1)

RECURSIVE Store(_, _), StoreParams(_, _, _, _)
\* the type t as its owner built it on the heap
Store(h, t) ==
    IF t.tag = "typeInvalid" THEN typeCreateInvalidIn(h)
    ELSE IF t.tag = "typeBasic" THEN typeCreateBasicIn(h, t.basic)
    ELSE IF t.tag = "typePtr" THEN
        LET B == Store(h, t.base) IN typeCreatePtrIn(B.h, B.a)
    ELSE IF t.tag = "typeArray" THEN
        LET B == Store(h, t.base) IN typeCreateArrayIn(B.h, B.a, t.array)
    ELSE
        LET A == callocIn(h, t.params)
            P == StoreParams(A.h, t, A.a, 1)
            R == Store(P, t.returnType)
            F == typeCreateFunctionIn(R.h, R.a, A.a, t.params)
        IN  At([F.h EXCEPT !.node[F.a].variadic = t.variadic], F.a)

StoreParams(h, t, p, i) ==
    IF i > t.params THEN h
    ELSE LET D == Store(h, t.paramTypes[i])
         IN  StoreParams([D.h EXCEPT !.arr[p][i] = D.a], t, p, i + 1)

\* typeIs*, asked of the node at an address
TagIn(h, a) == h.node[a].tag

RECURSIVE typeDeepDuplicateIn(_, _), DuplicateParams(_, _, _, _)
\* mutant: a pointer or array copy points at the original's base
typeDeepDuplicateIn_SharedBase(h, a) ==
    LET n == h.node[a] IN
    IF TagIn(h, a) = "typeInvalid" THEN typeCreateInvalidIn(h)
    ELSE IF TagIn(h, a) = "typeBasic" THEN typeCreateBasicIn(h, n.basic)
    ELSE IF TagIn(h, a) = "typePtr" THEN typeCreatePtrIn(h, n.base)
    ELSE IF TagIn(h, a) = "typeArray" THEN typeCreateArrayIn(h, n.base, n.array)
    ELSE
        LET A == callocIn(h, n.params)
            P == DuplicateParams(A.h, n, A.a, 1)
            R == typeDeepDuplicateIn(P, n.returnType)
        IN  typeCreateFunctionIn(R.h, R.a, A.a, n.params)

typeDeepDuplicateIn(h, a) ==
    LET n == h.node[a] IN
    IF TagIn(h, a) = "typeInvalid" THEN typeCreateInvalidIn(h)
    ELSE IF TagIn(h, a) = "typeBasic" THEN typeCreateBasicIn(h, n.basic)
    ELSE IF TagIn(h, a) = "typePtr" THEN
        LET B == typeDeepDuplicateIn(h, n.base) IN typeCreatePtrIn(B.h, B.a)
    ELSE IF TagIn(h, a) = "typeArray" THEN
        LET B == typeDeepDuplicateIn(h, n.base) IN typeCreateArrayIn(B.h, B.a, n.array)
    ELSE
        LET A == callocIn(h, n.params)
            P == DuplicateParams(A.h, n, A.a, 1)
            R == typeDeepDuplicateIn(P, n.returnType)
        IN  typeCreateFunctionIn(R.h, R.a, A.a, n.params)

\* the loop over DT->paramTypes, from index i, filling the new array p
DuplicateParams(h, n, p, i) ==
    IF i > n.params THEN h
    ELSE LET D == typeDeepDuplicateIn(h, h.arr[n.paramTypes][i])
         IN  DuplicateParams([D.h EXCEPT !.arr[p][i] = D.a], n, p, i + 1)

RECURSIVE typeDestroyIn(_, _), DestroyParams(_, _, _)
typeDestroyIn(h, a) ==
    LET n == h.node[a]
        h1 == IF n.tag \in {"typeBasic", "typeInvalid"} THEN h
              ELSE IF n.tag \in {"typePtr", "typeArray"} THEN typeDestroyIn(h, n.base)
              ELSE LET R == typeDestroyIn(h, n.returnType)
                       P == DestroyParams(R, n, 1)
                   IN  [P EXCEPT !.freedArr = @ \cup {n.paramTypes}]
    IN  [h1 EXCEPT !.freed = @ \cup {a}]

DestroyParams(h, n, i) ==
    IF i > n.params THEN h
    ELSE DestroyParams(typeDestroyIn(h, h.arr[n.paramTypes][i]), n, i + 1)

RECURSIVE Load(_, _)
\* the type a node denotes, read through its pointers
Load(h, a) ==
    LET n == h.node[a] IN
    [tag |-> n.tag, basic |-> n.basic,
     base |-> IF n.base = 0 THEN Null ELSE Load(h, n.base),
     array |-> n.array,
     returnType |-> IF n.returnType = 0 THEN Null ELSE Load(h, n.returnType),
     paramTypes |-> IF n.paramTypes = 0 THEN <<>>
                    ELSE [i \in 1..n.params |-> Load(h, h.arr[n.paramTypes][i])],
     params |-> n.params, variadic |-> n.variadic]

RECURSIVE NodesOf(_, _)
\* the nodes a type is made of
NodesOf(h, a) ==
    LET n == h.node[a] IN
    {a} \cup (IF n.base = 0 THEN {} ELSE NodesOf(h, n.base))
        \cup (IF n.returnType = 0 THEN {} ELSE NodesOf(h, n.returnType))
        \cup (IF n.paramTypes = 0 THEN {}
              ELSE UNION {NodesOf(h, h.arr[n.paramTypes][i]) : i \in 1..n.params})

\* the parameter arrays a type is made of
ArraysOf(h, a) ==
    {h.node[b].paramTypes : b \in {c \in NodesOf(h, a) : h.node[c].paramTypes # 0}}

MaxCopies == 2

\* the types the analyzer duplicates: derived ones and declared function types
HeapTypes == Gen(MaxDepth) \cup {symDt("f"), symDt("v")}

InitHeap ==
    /\ DT \in HeapTypes
    /\ heap = LET S == Store(NoHeap, DT) IN [S.h EXCEPT !.src = S.a, !.roots = {S.a}]
    /\ Model = typeCreateInvalid
    /\ tcall = NoCall
    /\ Tree = NoNode
    /\ out = NoNode
    /\ pc = "heap"
    /\ ctx = NoCtx
    /\ isLvalue = FALSE

\* typeDeepDuplicate(a) for a type a owned so far
HeapDuplicate ==
    /\ heap.copies < MaxCopies
    /\ \E a \in heap.roots :
          LET D == typeDeepDuplicateIn(heap, a)
          IN  heap' = [D.h EXCEPT !.roots = @ \cup {D.a},
                                 !.differs = @ \cup (IF a \in @ THEN {D.a} ELSE {}),
                                 !.last = <<a, D.a>>,
                                 !.copies = @ + 1]
    /\ UNCHANGED <<DT, Model, tcall, Tree, pc, out, ctx, isLvalue>>

\* the owner of a copy writes to one of its nodes (another basic symbol, another
\* array size)
HeapMutate ==
    /\ \E a \in heap.roots \ {heap.src} : \E n \in NodesOf(heap, a) :
          /\ TagIn(heap, n) \in {"typeBasic", "typeArray"}
          /\ heap' = [heap EXCEPT
                          !.node[n] = IF @.tag = "typeBasic"
                                      THEN [@ EXCEPT !.basic = "char"]
                                      ELSE [@ EXCEPT !.array = 7],
                          !.differs = @ \cup {a}, !.last = <<>>]
    /\ UNCHANGED <<DT, Model, tcall, Tree, pc, out, ctx, isLvalue>>

\* typeDestroy(a) by the owner of a copy
HeapDestroy ==
    /\ \E a \in heap.roots \ {heap.src} :
          heap' = [typeDestroyIn(heap, a) EXCEPT !.roots = @ \ {a}, !.last = <<>>]
    /\ UNCHANGED <<DT, Model, tcall, Tree, pc, out, ctx, isLvalue>>

\* typeDerive*, on the heap
typeDeriveFromIn(h, a) == typeDeepDuplicateIn(h, a)

typeDeriveFromTwoIn(h, l, r) ==
    IF TagIn(h, l) = "typeInvalid" \/ TagIn(h, r) = "typeInvalid"
    THEN typeCreateInvalidIn(h)
    ELSE typeDeriveFromIn(h, l)

typeDeriveUnifiedIn(h, l, r) ==
    IF TagIn(h, l) = "typeInvalid" \/ TagIn(h, r) = "typeInvalid"
    THEN typeCreateInvalidIn(h)
    ELSE IF typeIsEqual(Load(h, l), Load(h, r)) = "T" THEN typeDeepDuplicateIn(h, l)
    ELSE typeDeriveFromTwoIn(h, l, r)

\* mutant: the operand's own base node is returned
typeDeriveBaseIn_Alias(h, a) ==
    IF TagIn(h, a) = "typeInvalid" THEN typeCreateInvalidIn(h)
    ELSE At(h, h.node[a].base)

typeDeriveBaseIn(h, a) ==
    IF TagIn(h, a) = "typeInvalid" THEN typeCreateInvalidIn(h)
    ELSE typeDeepDuplicateIn(h, h.node[a].base)

typeDerivePtrIn(h, a) ==
    LET B == typeDeepDuplicateIn(h, a) IN typeCreatePtrIn(B.h, B.a)

RECURSIVE typeDeriveReturnIn(_, _)
typeDeriveReturnIn(h, a) ==
    IF TagIn(h, a) = "typeInvalid" THEN typeCreateInvalidIn(h)
    ELSE IF TagIn(h, a) = "typePtr" THEN typeDeriveReturnIn(h, h.node[a].base)
    ELSE typeDeepDuplicateIn(h, h.node[a].returnType)

\* the statements of the pass that store a type: Node->dt = ..., and
\* ctx->returnType = ... in analyzerFnImpl
DtSites ==
    {"analyzerBOP", "analyzerComparisonBOP", "analyzerMemberBOP", "analyzerCommaBOP",
     "analyzerUOP", "analyzerUOP*", "analyzerUOP&", "analyzerTernary", "analyzerIndex",
     "analyzerCall", "analyzerCast", "analyzerLiteral", "analyzerLiteral string",
     "analyzerSizeof", "analyzerCompoundLiteral", "analyzerInitOrCompoundLiteral",
     "analyzerFnImpl", "invalid"}

\* the test that leads to the statement, l and r being the operand types
SiteGuard(site, h, l, r) ==
    CASE site \in {"analyzerBOP", "analyzerTernary"} ->
             typeIsCompatible(Load(h, l), Load(h, r)) # "F"
      [] site = "analyzerUOP*" -> typeIsPtr(Load(h, r))
      [] site = "analyzerIndex" -> typeIsArray(Load(h, l)) \/ typeIsPtr(Load(h, l))
      [] site = "analyzerCall" ->
             typeIsCallable(Load(h, l)) /\ ~typeIsInvalid(Load(h, l))
      [] site = "analyzerFnImpl" -> typeIsCallable(Load(h, l))
      [] OTHER -> TRUE

\* the type the statement stores
SiteDt(site, h, l, r) ==
    CASE site = "analyzerBOP" -> typeDeriveFromTwoIn(h, l, r)
      [] site = "analyzerComparisonBOP" -> typeCreateBasicIn(h, "bool")
      [] site = "analyzerMemberBOP" -> typeDeepDuplicateIn(h, l)
      [] site = "analyzerCommaBOP" -> typeDeepDuplicateIn(h, r)
      [] site = "analyzerUOP" -> typeDeriveFromIn(h, r)
      [] site = "analyzerUOP*" -> typeDeriveBaseIn(h, r)
      [] site = "analyzerUOP&" -> typeDerivePtrIn(h, r)
      [] site = "analyzerTernary" -> typeDeriveUnifiedIn(h, l, r)
      [] site = "analyzerIndex" -> typeDeriveBaseIn(h, l)
      [] site = "analyzerCall" -> typeDeriveReturnIn(h, l)
      [] site = "analyzerCast" -> typeDeepDuplicateIn(h, l)
      [] site = "analyzerLiteral" -> typeCreateBasicIn(h, "int")
      [] site = "analyzerLiteral string" ->
             LET B == typeCreateBasicIn(h, "char") IN typeCreatePtrIn(B.h, B.a)
      [] site = "analyzerSizeof" -> typeCreateBasicIn(h, "int")
      \* Node->symbol->dt = typeDeepDuplicate(Node->dt)
      [] site = "analyzerCompoundLiteral" -> typeDeepDuplicateIn(h, l)
      [] site = "analyzerInitOrCompoundLiteral" -> typeDeepDuplicateIn(h, l)
      [] site = "analyzerFnImpl" -> typeDeriveReturnIn(h, l)
      [] site = "invalid" -> typeCreateInvalidIn(h)

\* one such statement, its operands being types owned so far (a symbol's
\* declared type, another node's dt, the expected return type)
HeapStoreDt ==
    /\ heap.copies < MaxCopies
    /\ \E site \in DtSites : \E l, r \in heap.roots :
          /\ SiteGuard(site, heap, l, r)
          /\ LET D == SiteDt(site, heap, l, r)
             IN  heap' = [D.h EXCEPT !.roots = @ \cup {D.a},
                                    !.differs = @ \cup {D.a},
                                    !.last = <<>>,
                                    !.copies = @ + 1]
    /\ UNCHANGED <<DT, Model, tcall, Tree, pc, out, ctx, isLvalue>>

NextHeap == HeapDuplicate \/ HeapMutate \/ HeapDestroy \/ HeapStoreDt

SpecHeap == InitHeap /\ [][NextHeap]_vars

(***************************************************************************)
(* Claims about duplication                                                *)
(***************************************************************************)
RECURSIVE StructurallyEqual(_, _)
\* same variant, basic symbol, array size, parameter count and types, return
\* type and base, at every level
StructurallyEqual(s, t) ==
    IF s.tag = "null" \/ t.tag = "null" THEN s.tag = t.tag
    ELSE /\ s.tag = t.tag
         /\ s.basic = t.basic
         /\ s.array = t.array
         /\ s.params = t.params
         /\ Len(s.paramTypes) = Len(t.paramTypes)
         /\ \A i \in 1..Len(s.paramTypes) :
                StructurallyEqual(s.paramTypes[i], t.paramTypes[i])
         /\ StructurallyEqual(s.returnType, t.returnType)
         /\ StructurallyEqual(s.base, t.base)

\* two separately owned types have no node and no parameter array in common
Disjoint(h, a, b) ==
    /\ NodesOf(h, a) \cap NodesOf(h, b) = {}
    /\ ArraysOf(h, a) \cap ArraysOf(h, b) = {}

\* C16: a duplicate is structurally equal to its source at every level, and so
\* is a duplicate of a duplicate; it shares no node and no parameter array
\* with its source, so writing to a copy or destroying it leaves t as it was
C16_DeepDuplicate ==
    pc = "heap" =>
        /\ heap.last # <<>> =>
               StructurallyEqual(Load(heap, heap.last[2]), Load(heap, heap.last[1]))
        /\ \A a \in heap.roots \ heap.differs : StructurallyEqual(Load(heap, a), DT)
        /\ \A a, b \in heap.roots : a # b => Disjoint(heap, a, b)
        /\ Load(heap, heap.src) = DT
        /\ NodesOf(heap, heap.src) \cap heap.freed = {}
        /\ ArraysOf(heap, heap.src) \cap heap.freedArr = {}

\* a function type with a parameter was copied twice, one copy written to and
\* destroyed
C16_Witness ==
    /\ pc = "heap" /\ DT.tag = "typeFunction" /\ DT.params > 0
    /\ heap.copies = 2
    /\ heap.differs # {}
    /\ heap.freed # {} /\ heap.freedArr # {}
    /\ Cardinality(heap.roots) = 2

\* C17: no type node is shared: the type stored for one AST node is never the
\* same object as, and never contains a node of, the type of another node, a
\* symbol's declared type or the expected return type; every stored type is
\* freshly created or a deep duplicate
C17_NoSharedTypeNode ==
    pc = "heap" =>
        /\ \A a, b \in heap.roots :
              a # b => a \notin NodesOf(heap, b) /\ Disjoint(heap, a, b)
        /\ \A a \in heap.roots : NodesOf(heap, a) \cap heap.freed = {}

\* the base of a pointer or array type was stored as a node's type, next to
\* the type it was derived from and a third type
C17_Witness ==
    /\ pc = "heap" /\ DT.tag \in {"typePtr", "typeArray"}
    /\ Cardinality(heap.roots) = 3
    /\ \E a \in heap.roots :
          /\ a # heap.src
          /\ StructurallyEqual(Load(heap, a), DT.base)
          /\ ~typeIsInvalid(DT.base)

(***************************************************************************)
(* Claims about the order of the diagnostics                               *)
(***************************************************************************)
\* the kinds a node reports at the location of a child (its operand, argument
\* or element); every other kind is reported at the reporting node itself
AboutChild ==
    {"errorTypeExpected", "errorTypeExpectedType", "errorLvalue", "errorMember",
     "errorParamMismatch", "errorNamedParamMismatch", "errorInitFieldMismatch",
     "analyzerErrorExpectedType"}

IsPrefix(p, q) == Len(p) <= Len(q) /\ SubSeq(q, 1, Len(p)) = p

\* the operands of a node in the order they are visited
Operands(n) ==
    CASE n.tag = "astBOP" -> <<n.l, n.r>>
      [] n.tag = "astUOP" -> <<n.r>>
      [] n.tag = "astTOP" -> <<n.kids[1], n.l, n.r>>
      [] n.tag = "astIndex" -> <<n.l, n.r>>

\* the diagnostics reported while the subtree of operand m was visited
FromSubtree(m) ==
    {k \in 1..Len(ctx.diags) :
        /\ IsPrefix(m.location, ctx.diags[k].at)
        /\ ~(ctx.diags[k].at = m.location /\ ctx.diags[k].kind \in AboutChild)}

\* the diagnostics node n reports about its own operands
Own(n) ==
    {k \in 1..Len(ctx.diags) :
        \/ ctx.diags[k].at = n.location /\ ctx.diags[k].kind \notin AboutChild
        \/ /\ ctx.diags[k].kind \in AboutChild
           /\ \E i \in 1..Len(Operands(n)) : ctx.diags[k].at = Operands(n)[i].location}

\* the place of a node's own check: classification, l-value, mismatch
Rank(kind) ==
    CASE kind = "errorTypeExpected" -> 1
      [] kind = "errorLvalue" -> 2
      [] OTHER -> 3

OrderedNode(n) ==
    n.tag \in {"astUOP", "astTOP", "astIndex"}
    \/ (n.tag = "astBOP" /\ ~isMemberBOP(n.o))

\* C18: for every binary, unary, ternary and index node the diagnostics of an
\* operand's subtree precede those of the operands to its right, all of them
\* precede the node's own diagnostics, and the node's own come in the order
\* classification, l-value, mismatch
C18_TraversalOrder ==
    pc = "done" =>
        \A n \in SubNodes(out) :
            OrderedNode(n) =>
                /\ \A i, j \in 1..Len(Operands(n)) :
                       i < j => \A p \in FromSubtree(Operands(n)[i]) :
                                    \A q \in FromSubtree(Operands(n)[j]) : p < q
                /\ \A i \in 1..Len(Operands(n)) :
                       \A p \in FromSubtree(Operands(n)[i]) : \A q \in Own(n) : p < q
                /\ \A p, q \in Own(n) :
                       Rank(ctx.diags[p].kind) < Rank(ctx.diags[q].kind) => p < q

\* a compound assignment whose operands both report and which itself reports a
\* classification, an l-value and a mismatch diagnostic: (1 = 1) += (1 = 1, s)
C18_Witness ==
    /\ pc = "done" /\ Tree.tag = "astBOP" /\ Tree.o = "+="
    /\ FromSubtree(out.l) # {} /\ FromSubtree(out.r) # {}
    /\ {ctx.diags[k].kind : k \in Own(out)}
           = {"errorTypeExpected", "errorLvalue", "errorMismatch"}

(***************************************************************************)
(* Claims about member access                                              *)
(***************************************************************************)
\* an analysed member access
MemberAccess(n) == n.tag = "astBOP" /\ isMemberBOP(n.o) /\ n.l.dt.tag # "null"

DirectRecord(t) == t.tag = "typeBasic" /\ symTag(t.basic) = "symStruct"

PtrToRecord(t) == t.tag = "typePtr" /\ DirectRecord(t.base)

RightShape(n) == IF isDerefBOP(n.o) THEN PtrToRecord(n.l.dt) ELSE DirectRecord(n.l.dt)

\* the field is looked up in the record: found, it is stored on the node and
\* its declared type duplicated; absent, an unknown-member diagnostic and Invalid
LookedUp(n) ==
    LET field == symChild(typeGetRecordSym(n.l.dt), n.r.literal)
    IN  IF field # NoSym
        THEN /\ n.symbol = field
             /\ n.dt = typeDeepDuplicate(symDt(field))
             /\ DiagsAt({"errorMember"}, n.r.location) = {}
        ELSE /\ n.symbol = NoSym
             /\ typeIsInvalid(n.dt)
             /\ Cardinality(DiagsAt({"errorMember"}, n.r.location)) = 1

\* C19: a member access whose left operand has the wrong shape for its
\* operator (not a direct record for '.', not a pointer to a record for '->')
\* reports a structure/union diagnostic and is Invalid; only with the right
\* shape is the field looked up; the right child is never value-analysed
C19_WrongShapeInvalid ==
    pc = "done" =>
        \A n \in SubNodes(out) :
            MemberAccess(n) =>
                /\ n.r.dt.tag = "null"
                /\ IF RightShape(n) THEN LookedUp(n)
                   ELSE /\ DiagsAt({"errorTypeExpected"}, n.l.location) # {}
                        /\ typeIsInvalid(n.dt)
                        /\ n.symbol = NoSym

\* C19 as amended: a left operand that is neither a record nor a pointer to a
\* record (and not Invalid) draws one structure/union diagnostic and Invalid;
\* a record or pointer to a record is looked up whichever the operator, with
\* one type-expected diagnostic about the left operand when the level of
\* indirection is the wrong one and none otherwise; an Invalid left operand
\* gives Invalid; the right child is never value-analysed
C19_MemberAccess ==
    pc = "done" =>
        \A n \in SubNodes(out) :
            MemberAccess(n) =>
                /\ n.r.dt.tag = "null"
                /\ DirectRecord(n.l.dt) \/ PtrToRecord(n.l.dt) =>
                       /\ LookedUp(n)
                       /\ Cardinality(DiagsAt({"errorTypeExpected"}, n.l.location))
                              = (IF RightShape(n) THEN 0 ELSE 1)
                /\ typeIsInvalid(n.l.dt) => typeIsInvalid(n.dt) /\ n.symbol = NoSym
                /\ ~DirectRecord(n.l.dt) /\ ~PtrToRecord(n.l.dt) /\ ~typeIsInvalid(n.l.dt)
                   /\ ~(n.l.dt.tag = "typePtr" /\ typeIsInvalid(n.l.dt.base)) =>
                       /\ Cardinality(DiagsAt({"errorTypeExpected"}, n.l.location)) = 1
                       /\ typeIsInvalid(n.dt)
                       /\ n.symbol = NoSym

\* sp.a with struct S *sp: one diagnostic about sp, and the type of field a
C19_Witness ==
    /\ pc = "done" /\ MemberAccess(out) /\ out.o = "."
    /\ PtrToRecord(out.l.dt)
    /\ out.symbol = "a" /\ out.dt = typeCreateBasic("int")
    /\ Cardinality(DiagsAt({"errorTypeExpected"}, out.l.location)) = 1

(***************************************************************************)
(* Claims about assignment                                                 *)
(***************************************************************************)
\* an analysed assignment ('=' or a compound form)
Assignment(n) == n.tag = "astBOP" /\ isAssignmentBOP(n.o) /\ n.dt.tag # "null"

\* C20: an assignment whose left operand is not an l-value reports exactly one
\* l-value diagnostic, at the left operand; one whose left operand is an
\* l-value reports none; and an assignment is itself never an l-value, so an
\* assignment that is the left operand of another always draws the diagnostic
C20_AssignmentLvalue ==
    pc = "done" =>
        /\ \A n \in SubNodes(out) :
               Assignment(n) =>
                   /\ Cardinality(DiagsAt({"errorLvalue"}, n.l.location))
                          = (IF LvalueRule(n.l) THEN 0 ELSE 1)
                   /\ \A k \in DiagsAt({"errorLvalue"}, n.l.location) :
                          ctx.diags[k].o = n.o
                   /\ Assignment(n.l) =>
                          Cardinality(DiagsAt({"errorLvalue"}, n.l.location)) = 1
        /\ Assignment(out) => ~isLvalue

\* (1 = 1) += (1 = 1, s): the nested assignment and the outer one each draw
\* one l-value diagnostic
C20_Witness ==
    /\ pc = "done" /\ Assignment(out) /\ Assignment(out.l)
    /\ Cardinality(DiagsAt({"errorLvalue"}, out.l.location)) = 1
    /\ Cardinality(DiagsAt({"errorLvalue"}, out.l.l.location)) = 1
    /\ ~isLvalue

(***************************************************************************)
(* Claims about unary &                                                    *)
(***************************************************************************)
\* an analysed unary &
Reference(n) == n.tag = "astUOP" /\ n.o = "&" /\ n.dt.tag # "null"

\* C21: unary & over an operand that is not an l-value reports exactly one
\* l-value diagnostic, at the operand, and over an l-value (identifier,
\* dereference, -> member, compound literal) none; either way it reports
\* nothing else of its own, its type is pointer to the operand's type, Invalid
\* operand included, and the node is not an l-value
C21_Reference ==
    pc = "done" =>
        /\ \A n \in SubNodes(out) :
               Reference(n) =>
                   /\ Cardinality(DiagsAt({"errorLvalue"}, n.r.location))
                          = (IF LvalueRule(n.r) THEN 0 ELSE 1)
                   /\ \A k \in Own(n) :
                          ctx.diags[k].kind = "errorLvalue" /\ ctx.diags[k].o = "&"
                   /\ n.dt = typeCreatePtr(n.r.dt)
                   /\ ~LvalueRule(n)
        /\ Reference(out) => ~isLvalue

\* &3: one l-value diagnostic and the type pointer to int
C21_Witness ==
    /\ pc = "done" /\ Reference(out) /\ out.r.litTag = "literalInt"
    /\ Cardinality(DiagsAt({"errorLvalue"}, out.r.location)) = 1
    /\ out.dt = typeCreatePtr(typeCreateBasic("int"))
    /\ ~isLvalue

(***************************************************************************)
(* Claims about initializers                                               *)
(***************************************************************************)
\* a brace-initializer or compound literal that was checked against type T
\* carries a duplicate of T as its dt
Braces(n) ==
    n.tag = "astLiteral" /\ n.litTag \in {"literalInit", "literalCompound"}

ArrayInit(n) == Braces(n) /\ n.dt.tag = "typeArray"

\* the mismatch diagnostics reported about the elements of n
Mismatches(n, kinds) ==
    {i \in 1..Len(n.kids) : DiagsAt(kinds, n.kids[i].location) # {}}

StructInit(n) == Braces(n) /\ DirectRecord(n.dt)

ScalarInit(n) ==
    Braces(n) /\ n.dt.tag \in {"typeBasic", "typePtr"} /\ ~DirectRecord(n.dt)

\* the fields of the record an initializer was checked against
Fields(n) == symChildren(n.dt.basic)

\* the elements that have a field to be paired with
Paired(n) == {i \in 1..Len(n.kids) : i <= Len(Fields(n))}

\* element i of n was analysed and checked against type T, a mismatch being
\* reported once by a diagnostic of the given kind
CheckedAgainst(n, i, T, kind) ==
    /\ n.kids[i].dt.tag # "null"
    /\ IsInit(n.kids[i]) => n.kids[i].dt = typeDeepDuplicate(T)
    /\ typeIsCompatible(n.kids[i].dt, T) = "T" =>
           DiagsAt({kind}, n.kids[i].location) = {}
    /\ typeIsCompatible(n.kids[i].dt, T) = "F" =>
           Cardinality(DiagsAt({kind}, n.kids[i].location)) = 1

\* the variable-initialization mismatch lines, wherever they are keyed
ScalarMismatches ==
    {k \in 1..Len(ctx.diags) : ctx.diags[k].o = "variable initialization"}

\* C23: an initializer checked against a struct type reports the fields arity
\* diagnostic exactly when the number of elements differs from the number of
\* fields, and its i-th element is analysed (a nested brace-initializer against
\* the i-th field's type) and checked against the i-th field's type, one
\* field-mismatch diagnostic per incompatible pair; against a scalar type it
\* reports the arity diagnostic exactly when it has not one element, and a
\* single element is analysed and checked against the scalar type
C23_FieldsPaired ==
    pc = "done" =>
        /\ \A n \in SubNodes(out) :
               /\ StructInit(n) =>
                      /\ Cardinality(DiagsAt({"errorDegree"}, n.location))
                             = (IF Len(n.kids) # Len(Fields(n)) THEN 1 ELSE 0)
                      /\ \A i \in Paired(n) :
                             CheckedAgainst(n, i, symDt(Fields(n)[i]),
                                            "errorInitFieldMismatch")
               /\ ScalarInit(n) =>
                      /\ Cardinality(DiagsAt({"errorDegree"}, n.location))
                             = (IF Len(n.kids) # 1 THEN 1 ELSE 0)
                      /\ Len(n.kids) = 1 =>
                             /\ n.kids[1].dt.tag # "null"
                             /\ typeIsCompatible(n.kids[1].dt, n.dt) = "F" =>
                                    ScalarMismatches # {}
        /\ (\A n \in SubNodes(out) :
                ScalarInit(n) /\ Len(n.kids) = 1 =>
                    typeIsCompatible(n.kids[1].dt, n.dt) = "T")
               => ScalarMismatches = {}

(***************************************************************************)
(* Claims about return statements                                          *)
(***************************************************************************)
\* no enclosing implementation of a function
NoFunction == [tag |-> "none"]

\* the return type of the function a node implements
ImplementedReturn(n) ==
    IF typeIsFunction(symDt(n.symbol)) THEN symDt(n.symbol).returnType ELSE NoFunction

RECURSIVE ReturnsIn(_, _)
\* the return statements under statement n, each with the return type T of its
\* innermost enclosing function implementation
ReturnsIn(n, T) ==
    IF IsNull(n) \/ astIsValueTag(n.tag) THEN {}
    ELSE IF n.tag = "astReturn" THEN {<<n, T>>}
    ELSE IF n.tag = "astFnImpl" THEN ReturnsIn(n.r, ImplementedReturn(n))
    ELSE ReturnsIn(n.l, T) \cup ReturnsIn(n.r, T)
         \cup UNION {ReturnsIn(n.kids[i], T) : i \in 1..Len(n.kids)}

\* the return diagnostics at a location
ReturnDiags(where, loc) ==
    {k \in DiagsAt({"analyzerErrorExpectedType"}, loc) : ctx.diags[k].o = where}

\* the return statement n was checked against T
CheckedReturn(n, T) ==
    IF IsNull(n.r)
    THEN /\ Cardinality(ReturnDiags("return statement", n.location))
                = (IF typeIsVoid(T) THEN 0 ELSE 1)
         /\ \A k \in ReturnDiags("return statement", n.location) :
                ctx.diags[k].other = T
    ELSE /\ typeIsCompatible(n.r.dt, T) = "T" =>
                ReturnDiags("return", n.r.location) = {}
         /\ typeIsCompatible(n.r.dt, T) = "F" =>
                Cardinality(ReturnDiags("return", n.r.location)) = 1
         /\ \A k \in ReturnDiags("return", n.r.location) :
                ctx.diags[k].other = T /\ ctx.diags[k].found = n.r.dt

\* C24: every return statement inside a function implementation is checked
\* against the return type of the innermost enclosing implementation, also
\* after a nested implementation has been analysed and whatever was reported
\* in between: a value that is not compatible with it, or no value where it is
\* not void, draws exactly one diagnostic naming that type, and anything else
\* none; after the pass the expected return type of the context is what it was
\* before the implementation was entered
C24_ReturnChecked ==
    pc = "done" =>
        /\ \A p \in ReturnsIn(out, NoFunction) :
               p[2] # NoFunction => CheckedReturn(p[1], p[2])
        /\ ctx.returnType = NoCtx.returnType

\* int f(int) { void h() { return; }  return; }: the return of h is accepted
\* and the return of f after it draws the diagnostic against int
C24_Witness ==
    /\ pc = "done" /\ out.tag = "astFnImpl" /\ out.symbol = "f"
    /\ out.r.kids[1].tag = "astFnImpl" /\ out.r.kids[1].symbol = "h"
    /\ ReturnDiags("return statement", out.r.kids[1].r.kids[1].location) = {}
    /\ \E k \in ReturnDiags("return statement", out.r.kids[2].location) :
           ctx.diags[k].other = typeCreateBasic("int")
    /\ ctx.returnType = NoCtx.returnType

(***************************************************************************)
(* Claims about Invalid operands in l-value contexts                       *)
(***************************************************************************)
\* the operand of n that must be an l-value: the operand of &, ++ and --, the
\* left operand of an assignment
LvalueOperand(n) == IF n.tag = "astUOP" THEN n.r ELSE n.l

LvalueContext(n) ==
    /\ n.dt.tag # "null"
    /\ \/ n.tag = "astUOP" /\ n.o \in {"&", "++", "--"}
       \/ n.tag = "astBOP" /\ isAssignmentBOP(n.o)

\* C25: where the operand of &, ++ or -- or the left operand of an assignment
\* has the derived type Invalid, the enclosing node reports no l-value
\* diagnostic about it
C25_InvalidSatisfiesLvalue ==
    pc = "done" =>
        \A n \in SubNodes(out) :
            LvalueContext(n) /\ typeIsInvalid(LvalueOperand(n).dt) =>
                DiagsAt({"errorLvalue"}, LvalueOperand(n).location) = {}

====
